---- MODULE Spec2Model ----
(***************************************************************************)
(* Model of the BMRS data cleaning and quality-flagging pipeline           *)
(* (src/utils/data_processor.py, class BMRSDataProcessor).                 *)
(*                                                                         *)
(* A DataFrame is a sequence of rows (records).  A timestamp is the number *)
(* of 30-minute steps since a fixed epoch, so date_range(freq='30min') is  *)
(* an integer interval.  A float64 cell is [nan, v]: nan says the cell is  *)
(* NaN, v is the value in fixed point, in units of 1/Scale, so that every  *)
(* linear interpolation the model can reach is exact.                      *)
(***************************************************************************)
EXTENDS Integers, Sequences, FiniteSets

\* ------------------------------------------------------------------ bounds
\* largest timestamp (in 30-minute steps) a raw record may carry
MaxSlot == 4
\* largest number of records in a raw batch
MaxRecs == 3
\* largest number of records of a batch that is processed twice
MaxTwiceRecs == 2
\* largest number of calls on other batches between the two calls
MaxBetween == 1
\* settlement dates are numbered 0..MaxDate
MaxDate == 2
\* half-hour settlement periods of one day
PeriodsPerDay == 48
\* timestamp.dt.hour: two half-hour slots to the hour, 24 hours a day
SlotsPerHour == 2
HoursPerDay == 24
\* _validate_dates: the largest accepted difference in days of end and start
Window == 31
\* start dates of run_analysis are numbered 0..MaxStart
MaxStart == 0
\* MaxRuns calls of run_analysis are made on one instance
MaxRuns == 2
\* the frames given to calculate_daily_imbalance_metrics cover MaxMetricRows
\* timestamps, half a day apart
MaxMetricRows == 3

\* ------------------------------------------------------ numeric helpers
RECURSIVE GCD(_, _)
GCD(a, b) == IF b = 0 THEN a ELSE GCD(b, a % b)

RECURSIVE LCMUpTo(_)
LCMUpTo(n) == IF n <= 1 THEN 1 ELSE (LCMUpTo(n - 1) * n) \div GCD(LCMUpTo(n - 1), n)

\* fixed-point denominator: a multiple of every distance between two rows
\* of a merged frame (at most MaxSlot + MaxRecs rows)
Scale == LCMUpTo(MaxSlot + MaxRecs)

NaN == [nan |-> TRUE, v |-> 0]
Float(x) == [nan |-> FALSE, v |-> x]

\* Series.isna() on one cell
isna(c) == c.nan
notna(c) == ~c.nan

\* variant of Sub with the operands exchanged (spread = sell - buy)
Sub_swapped(a, b) == IF a.nan \/ b.nan THEN NaN ELSE Float(b.v - a.v)

\* float subtraction: NaN if either operand is NaN
Sub(a, b) == IF a.nan \/ b.nan THEN NaN ELSE Float(a.v - b.v)

\* Series.abs() on one cell
Abs(a) == IF a.nan THEN NaN ELSE Float(IF a.v < 0 THEN -a.v ELSE a.v)

\* (series < 0) on one cell: a comparison with NaN is False
LtZero(a) == ~a.nan /\ a.v < 0

\* ------------------------------------------------------------ raw input
\* a raw cell is a null (None / NaN), a number, or a string
Null == [kind |-> "null", num |-> 0, text |-> ""]
Num(n) == [kind |-> "num", num |-> n, text |-> ""]
Str(s) == [kind |-> "str", num |-> 0, text |-> s]

\* the strings float() can parse, with their value
ParseTable == [s \in {"100"} |-> 100]

\* variant of to_numeric that turns a value it cannot parse into 0
to_numeric_unparsable_as_zero(c) ==
    CASE c.kind = "num" -> Float(c.num * Scale)
      [] c.kind = "str" /\ c.text \in DOMAIN ParseTable -> Float(ParseTable[c.text] * Scale)
      [] c.kind = "str" -> Float(0)
      [] OTHER -> NaN

\* pd.to_numeric(..., errors='coerce') on one cell
to_numeric(c) ==
    CASE c.kind = "num" -> Float(c.num * Scale)
      [] c.kind = "str" /\ c.text \in DOMAIN ParseTable -> Float(ParseTable[c.text] * Scale)
      [] OTHER -> NaN

\* the value part of a raw record: sell price, buy price, net volume
Payloads ==
    << <<Num(100), Num(100), Num(-40)>>,
       <<Num(110), Num(100), Num(40)>>,
       <<Str("n/a"), Str("100"), Null>>,
       <<Num(110), Null, Str("n/a")>> >>

RawRecord(t, p) ==
    [timestamp |-> t, systemSellPrice |-> p[1], systemBuyPrice |-> p[2],
     netImbalanceVolume |-> p[3]]

\* the raw records, numbered by timestamp and then by payload
RecordIndex == 0..((MaxSlot + 1) * Len(Payloads) - 1)
RecordAt(x) == RawRecord(x \div Len(Payloads), Payloads[(x % Len(Payloads)) + 1])

Reverse(s) == [i \in 1..Len(s) |-> s[Len(s) + 1 - i]]

\* the ascending sequences of n record numbers, none below lo
RECURSIVE Ascending(_, _)
Ascending(n, lo) ==
    IF n = 0 THEN {<<>>}
    ELSE UNION {{<<x>> \o f : f \in Ascending(n - 1, x)} : x \in {y \in RecordIndex : y >= lo}}

\* the raw batch that lists the records numbered by f, in that order or in
\* the opposite one
Batch(f, descending) ==
    LET s == [i \in 1..Len(f) |-> RecordAt(f[i])]
    IN  IF descending THEN Reverse(s) ELSE s

\* ---------------------------------------------------------------- state
VARIABLES
    raw,          \* the DataFrame passed to clean_and_process_data
    pc,           \* "ready", "returned" or "raised" (BMRSError)
    prices_df,    \* returned price frame
    volumes_df,   \* returned volume frame
    tie_order,    \* the order in which this build's sort_values lists the
                  \* rows of the coerced batch
    prev_prices,  \* the price frame an earlier call on the same batch returned
    prev_volumes, \* the volume frame an earlier call on the same batch returned
    calls_between, \* calls on other batches since that earlier call
    summary,      \* the dict returned by get_data_quality_summary
    analysis_pc,  \* analyse_hourly_volumes: "idle", "returned" or "raised"
    analysed,     \* the frame passed to analyse_hourly_volumes
    hourly_stats, \* the hourly statistics analyse_hourly_volumes returned
    start_date,   \* get_historic_imbalance_data: first date
    end_date,     \* get_historic_imbalance_data: last date
    responses,    \* what the API answers for each settlement date
    current_date, \* loop variable of get_historic_imbalance_data
    all_data,     \* the frames collected so far
    api_calls,    \* the dates requests.get was called for, in call order
    fetch_pc,     \* "idle", "called", "loop", "returned" or "raised"
    combined_df,  \* the frame get_historic_imbalance_data returned
    _raw_data,    \* BMRSAnalysis._raw_data
    _prices_df,   \* BMRSAnalysis._prices_df
    _volumes_df,  \* BMRSAnalysis._volumes_df
    run_pc,       \* per caller, its last run_analysis call: "idle" (none yet),
                  \* "fetching" (in its loop), "converted" (line 41 done),
                  \* "processing" (line 44: argument read, in process_data),
                  \* "prices_stored" (line 44: first target assigned),
                  \* "processed" (line 44 done), "analysed" (line 47 done),
                  \* "reported" (line 50 done), "quality" (line 53: first
                  \* argument read), "returned", "raised"
    run_args,     \* per caller: start date, end date and what the API answers
    run_calls,    \* per caller: the dates the call has fetched, in call order
    run_raw_data, \* per caller: the local raw_data of the call
    run_frame,    \* per caller: the frame the call read from the instance
                  \* as an argument (lines 44 and 53) and still holds
    run_result,   \* per caller: hourly_stats, peak_hours_report, daily_reports
                  \* and quality_metrics of the call as far as it has computed
                  \* them; the AnalysisResult once it returned
    overlapped,   \* per caller: another call was in progress during the call
    run_ranges,   \* the differences end - start that run_analysis is called
                  \* with on this instance
    run_count,    \* the number of run_analysis calls made on the instance
    run_last,     \* the caller whose call made the latest step, or "none"
    run_stored,   \* the caller whose call was the latest to assign a target
                  \* of line 44, "none" before any did, "earlier" once it
                  \* calls again
    gd_pc,        \* get_dataframes: "idle" (not called since the last step of
                  \* a run), "tested" (line 68 passed), "loaded" (line 70:
                  \* first element read), "returned", "raised"
    gd_result,    \* the elements of the pair of line 70 read so far
    gd_alone,     \* no run_analysis call made a step during the
                  \* get_dataframes call
    metrics_prices,   \* the prices_df given to calculate_daily_imbalance_metrics
    metrics_volumes,  \* the volumes_df given to it
    metrics_pc,       \* "idle", "ready" (about to be called), "returned", "raised"
    daily_metrics     \* the frame it returned

procVars == <<raw, pc, prices_df, volumes_df, tie_order>>
twiceVars == <<prev_prices, prev_volumes, calls_between>>
analysisVars == <<analysis_pc, analysed, hourly_stats>>
fetchVars == <<start_date, end_date, responses, current_date, all_data, api_calls,
               fetch_pc, combined_df>>
restVars == <<summary, analysisVars, fetchVars>>
callVars == <<run_pc, run_args, run_calls, run_raw_data, run_frame, run_result>>
gdVars == <<gd_pc, gd_result, gd_alone>>
bmrsVars == <<_raw_data, _prices_df, _volumes_df, callVars, overlapped, run_ranges,
              run_count, run_last,
              run_stored, gdVars>>
metricsVars == <<metrics_prices, metrics_volumes, metrics_pc, daily_metrics>>
appVars == <<bmrsVars, metricsVars>>
vars == <<procVars, twiceVars, restVars, appVars>>

\* -------------------------------------------------- pipeline operators
\* lines 19-21: coerce the three numeric columns
Coerce(df) ==
    [i \in 1..Len(df) |->
        [timestamp |-> df[i].timestamp,
         systemSellPrice |-> to_numeric(df[i].systemSellPrice),
         systemBuyPrice |-> to_numeric(df[i].systemBuyPrice),
         netImbalanceVolume |-> to_numeric(df[i].netImbalanceVolume)]]

\* the sequence s without its i-th row
RemoveAt(s, i) == [k \in 1..(Len(s) - 1) |-> IF k < i THEN s[k] ELSE s[k + 1]]

\* line 24: df.sort_values('timestamp') uses the default kind='quicksort',
\* which is not stable: rows with equal timestamps come out in any order
RECURSIVE sort_values(_)
sort_values(df) ==
    LET stamps == {df[i].timestamp : i \in 1..Len(df)}
    IN  IF df = <<>> THEN {<<>>}
        ELSE IF Cardinality(stamps) = 1
        THEN \* equal timestamps: every order
             UNION {{<<df[i]>> \o s : s \in sort_values(RemoveAt(df, i))} :
                       i \in 1..Len(df)}
        ELSE \* the rows before a middle timestamp, then the others
             LET mid == CHOOSE t \in stamps :
                            Cardinality({u \in stamps : u < t}) = Cardinality(stamps) \div 2
                 lo == SelectSeq(df, LAMBDA r : r.timestamp < mid)
                 hi == SelectSeq(df, LAMBDA r : r.timestamp >= mid)
             IN  {a \o b : a \in sort_values(lo), b \in sort_values(hi)}

SeqMin(df) == CHOOSE t \in {df[i].timestamp : i \in 1..Len(df)} :
                  \A i \in 1..Len(df) : t <= df[i].timestamp
SeqMax(df) == CHOOSE t \in {df[i].timestamp : i \in 1..Len(df)} :
                  \A i \in 1..Len(df) : t >= df[i].timestamp

\* pd.date_range(start, end, freq='30min')
date_range(start, end) == [i \in 1..(end - start + 1) |-> start + i - 1]

\* lines 27-31: the calendar of a non-empty frame
expected_periods(df) == date_range(SeqMin(df), SeqMax(df))

NaNRow(t) ==
    [timestamp |-> t, systemSellPrice |-> NaN, systemBuyPrice |-> NaN,
     netImbalanceVolume |-> NaN]

\* the rows of df (in df's order) whose timestamp is t
Matching(df, t) == SelectSeq(df, LAMBDA r : r.timestamp = t)

\* line 37: pd.merge(template_df, df, on='timestamp', how='left'): for each
\* template row in order, every matching row of df, or one all-NaN row
RECURSIVE merge(_, _)
merge(template, df) ==
    IF template = <<>> THEN <<>>
    ELSE IF Len(template) = 1
    THEN LET rows == Matching(df, template[1])
         IN  IF rows = <<>> THEN <<NaNRow(template[1])>> ELSE rows
    ELSE LET half == Len(template) \div 2
         IN  merge(SubSeq(template, 1, half), df)
             \o merge(SubSeq(template, half + 1, Len(template)), df)

\* ------------------------------------------------------- interpolation
\* line 47: limit=2
InterpolateLimit == 2

Valid(col) == {i \in 1..Len(col) : notna(col[i])}

Max(S) == CHOOSE x \in S : \A y \in S : y <= x
Min(S) == CHOOSE x \in S : \A y \in S : y >= x

\* variant of Interp that repeats the last valid value (a forward fill)
Interp_ffill(col, i, before, after) == col[Max(before)]

\* np.interp at position i of an invalid cell, given the valid positions
\* before and after i: linear between the nearest valid cells, the last
\* valid value to the right of the last valid cell
Interp(col, i, before, after) ==
    IF after = {} THEN col[Max(before)]
    ELSE LET p == Max(before)
             n == Min(after)
         IN Float(col[p].v + ((col[n].v - col[p].v) * (i - p)) \div (n - p))

\* variant of PreserveNaN that stops the fill one cell early
PreserveNaN_one_short(i, before, limit) ==
    before = {} \/ i - Max(before) >= limit

\* the NaN cells that stay NaN under limit_direction='forward': the leading
\* ones, and those more than `limit` cells after the last valid cell
PreserveNaN(i, before, limit) ==
    before = {} \/ i - Max(before) > limit

\* variant of interpolate that also fills leading NaN cells, from the first
\* valid value (limit_direction='both')
interpolate_both(col, limit) ==
    LET valid == Valid(col)
    IN  IF valid = {} THEN col
        ELSE [i \in 1..Len(col) |->
                IF notna(col[i]) THEN col[i]
                ELSE LET before == {j \in valid : j < i}
                         after == {j \in valid : j > i}
                     IN  IF before = {}
                            THEN (IF Min(after) - i <= limit THEN col[Min(after)] ELSE NaN)
                         ELSE IF PreserveNaN(i, before, limit) THEN NaN
                         ELSE Interp(col, i, before, after)]

\* variant of interpolate that also recomputes the cells that have a value
\* when valid cells lie on both sides of them
interpolate_resample(col, limit) ==
    LET valid == Valid(col)
    IN  IF valid = {} THEN col
        ELSE [i \in 1..Len(col) |->
                LET before == {j \in valid : j < i}
                    after == {j \in valid : j > i}
                IN  IF notna(col[i])
                    THEN (IF before # {} /\ after # {} THEN Interp(col, i, before, after)
                          ELSE col[i])
                    ELSE IF PreserveNaN(i, before, limit) THEN NaN
                    ELSE Interp(col, i, before, after)]

\* Series.interpolate(method='linear', limit=limit) on one column
interpolate(col, limit) ==
    LET valid == Valid(col)
    IN  IF valid = {} THEN col
        ELSE [i \in 1..Len(col) |->
                IF notna(col[i]) THEN col[i]
                ELSE LET before == {j \in valid : j < i}
                         after == {j \in valid : j > i}
                     IN  IF PreserveNaN(i, before, limit) THEN NaN
                         ELSE Interp(col, i, before, after)]

Column(df, name) == [i \in 1..Len(df) |-> df[i][name]]

\* ------------------------------------------------------- quality flags
\* variant of get_price_quality_flag that tests the spread before the
\* interpolation flags
get_price_quality_flag_anomaly_first(row) ==
    IF isna(row.system_sell_price) \/ isna(row.system_buy_price) THEN "Missing"
    ELSE IF LtZero(row.price_spread) THEN "Anomaly"
    ELSE IF row.is_interpolated_sell \/ row.is_interpolated_buy THEN "Interpolated"
    ELSE "Good"

\* variant of get_price_quality_flag whose 'Missing' condition looks at the
\* sell price only
get_price_quality_flag_sell_only(row) ==
    IF isna(row.system_sell_price) THEN "Missing"
    ELSE IF row.is_interpolated_sell \/ row.is_interpolated_buy THEN "Interpolated"
    ELSE IF LtZero(row.price_spread) THEN "Anomaly"
    ELSE "Good"

\* variant of get_price_quality_flag that reports a price the raw batch did
\* not supply as 'Missing' even when the fill produced a value
get_price_quality_flag_mask_is_missing(row) ==
    IF isna(row.system_sell_price) \/ isna(row.system_buy_price)
       \/ row.is_interpolated_sell \/ row.is_interpolated_buy THEN "Missing"
    ELSE IF LtZero(row.price_spread) THEN "Anomaly"
    ELSE "Good"

\* lines 76-87: np.select, first matching condition wins
get_price_quality_flag(row) ==
    IF isna(row.system_sell_price) \/ isna(row.system_buy_price) THEN "Missing"
    ELSE IF row.is_interpolated_sell \/ row.is_interpolated_buy THEN "Interpolated"
    ELSE IF LtZero(row.price_spread) THEN "Anomaly"
    ELSE "Good"

\* variant of get_volume_quality_flag whose second condition joins the two
\* tests with | instead of &
get_volume_quality_flag_or(row) ==
    IF isna(row.net_imbalance_volume) THEN "Missing"
    ELSE IF isna(row.net_imbalance_volume) \/ notna(row.net_imbalance_volume)
         THEN "Interpolated"
    ELSE "Good"

\* lines 90-100
get_volume_quality_flag(row) ==
    IF isna(row.net_imbalance_volume) THEN "Missing"
    ELSE IF isna(row.net_imbalance_volume) /\ notna(row.net_imbalance_volume)
         THEN "Interpolated"
    ELSE "Good"

\* lines 37-47: the merged frame, and the frame after the gap fill
Filled(merged) ==
    LET sell == interpolate(Column(merged, "systemSellPrice"), InterpolateLimit)
        buy == interpolate(Column(merged, "systemBuyPrice"), InterpolateLimit)
        vol == interpolate(Column(merged, "netImbalanceVolume"), InterpolateLimit)
    IN  [i \in 1..Len(merged) |->
            [timestamp |-> merged[i].timestamp, systemSellPrice |-> sell[i],
             systemBuyPrice |-> buy[i], netImbalanceVolume |-> vol[i]]]

\* variant of PricesOf that takes the interpolation mask after the fill
PricesOf_mask_after_fill(merged, df) ==
    [i \in 1..Len(df) |->
            LET row == [timestamp |-> df[i].timestamp,
                        system_sell_price |-> df[i].systemSellPrice,
                        system_buy_price |-> df[i].systemBuyPrice,
                        price_spread |-> Sub(df[i].systemBuyPrice, df[i].systemSellPrice),
                        is_interpolated_sell |-> isna(df[i].systemSellPrice),
                        is_interpolated_buy |-> isna(df[i].systemBuyPrice)]
            IN  [timestamp |-> row.timestamp,
                 system_sell_price |-> row.system_sell_price,
                 system_buy_price |-> row.system_buy_price,
                 price_spread |-> row.price_spread,
                 is_interpolated_sell |-> row.is_interpolated_sell,
                 is_interpolated_buy |-> row.is_interpolated_buy,
                 price_quality |-> get_price_quality_flag(row)]]

\* lines 50-57 and 67
PricesOf(merged, df) ==
    [i \in 1..Len(df) |->
            LET row == [timestamp |-> df[i].timestamp,
                        system_sell_price |-> df[i].systemSellPrice,
                        system_buy_price |-> df[i].systemBuyPrice,
                        price_spread |-> Sub(df[i].systemBuyPrice, df[i].systemSellPrice),
                        is_interpolated_sell |-> isna(merged[i].systemSellPrice),
                        is_interpolated_buy |-> isna(merged[i].systemBuyPrice)]
            IN  [timestamp |-> row.timestamp,
                 system_sell_price |-> row.system_sell_price,
                 system_buy_price |-> row.system_buy_price,
                 price_spread |-> row.price_spread,
                 is_interpolated_sell |-> row.is_interpolated_sell,
                 is_interpolated_buy |-> row.is_interpolated_buy,
                 price_quality |-> get_price_quality_flag(row)]]

\* lines 60-64 and 68
VolumesOf(df) ==
    [i \in 1..Len(df) |->
            LET row == [timestamp |-> df[i].timestamp,
                        net_imbalance_volume |-> df[i].netImbalanceVolume,
                        abs_imbalance_volume |-> Abs(df[i].netImbalanceVolume)]
            IN  [timestamp |-> row.timestamp,
                 net_imbalance_volume |-> row.net_imbalance_volume,
                 abs_imbalance_volume |-> row.abs_imbalance_volume,
                 volume_quality |-> get_volume_quality_flag(row)]]

\* the frame has a 'timestamp' column
HasTimestamp(df) == \A i \in 1..Len(df) : "timestamp" \in DOMAIN df[i]

\* line 24 as one build runs it: quicksort is not stable but it is
\* deterministic, the same frame always comes out in the same order
sort_values_build(df) == {tie_order}

\* lines 19-37: the frames merged from the raw batch
MergedFrames(df) ==
    {merge(expected_periods(s), s) : s \in sort_values_build(Coerce(df))}

\* ---------------------------------------------------------------- actions
\* the frame df without its 'timestamp' column
DropTimestamp(df) ==
    [i \in 1..Len(df) |->
        [systemSellPrice |-> df[i].systemSellPrice,
         systemBuyPrice |-> df[i].systemBuyPrice,
         netImbalanceVolume |-> df[i].netImbalanceVolume]]

\* no summary has been made
NoSummary == [prices |-> [total_periods |-> -1], volumes |-> [total_periods |-> -1]]

\* get_historic_imbalance_data has not been called
NoFetch ==
    /\ start_date = 0
    /\ end_date = 0
    /\ responses = <<>>
    /\ current_date = 0
    /\ all_data = <<>>
    /\ api_calls = <<>>
    /\ fetch_pc = "idle"
    /\ combined_df = <<>>

\* the differences end - start that run_analysis is called with: an end
\* before the start, one date, two dates
ShortRanges == {-1, 0, 1}

\* an end before the start, the longest accepted range and the shortest
\* rejected one
LongRanges == {-1, Window, Window + 1}

\* an attribute that is None, or holds the frame df
None == [present |-> FALSE, df |-> <<>>]
Some(df) == [present |-> TRUE, df |-> df]

\* no AnalysisResult
NoResult == [hourly_stats |-> <<>>, peak_hours_report |-> <<>>, daily_reports |-> <<>>,
             data_quality |-> <<>>]

\* the callers of one BMRSAnalysis instance, each with the frame of its
\* current call: run_analysis takes no lock and tests no flag, so the call
\* of one can begin while the call of the other is in progress (two
\* threads, or a call made from within a request of the other)
Callers == {"A", "B"}

\* no arguments yet
NoArgs == [start_date |-> 0, end_date |-> 0, answers |-> "none"]

\* BMRSAnalysis.__init__ (lines 19-21): nothing is stored, nothing has run
NewBMRSAnalysis ==
    /\ _raw_data = None
    /\ _prices_df = None
    /\ _volumes_df = None
    /\ run_pc = [c \in Callers |-> "idle"]
    /\ run_args = [c \in Callers |-> NoArgs]
    /\ run_calls = [c \in Callers |-> <<>>]
    /\ run_raw_data = [c \in Callers |-> <<>>]
    /\ run_frame = [c \in Callers |-> <<>>]
    /\ run_result = [c \in Callers |-> NoResult]
    /\ overlapped = [c \in Callers |-> FALSE]
    /\ run_count = 0
    /\ run_last = "none"
    /\ run_stored = "none"
    /\ gd_pc = "idle"
    /\ gd_result = <<>>
    /\ gd_alone = TRUE

\* calculate_daily_imbalance_metrics is not called
NoMetrics ==
    /\ metrics_prices = <<>>
    /\ metrics_volumes = <<>>
    /\ metrics_pc = "idle"
    /\ daily_metrics = <<>>

\* the state before clean_and_process_data is called on the frame df; the
\* ranges are those run_analysis will be called with
InitCallWith(df, ranges) ==
    /\ run_ranges = ranges
    /\ raw = df
    /\ tie_order \in (IF HasTimestamp(df) THEN sort_values(Coerce(df)) ELSE {<<>>})
    /\ pc = "ready"
    /\ prices_df = <<>>
    /\ volumes_df = <<>>
    /\ prev_prices = <<>>
    /\ prev_volumes = <<>>
    /\ calls_between = 0
    /\ summary = NoSummary
    /\ analysis_pc = "idle"
    /\ analysed = <<>>
    /\ hourly_stats = <<>>
    /\ NoFetch
    /\ NewBMRSAnalysis
    /\ NoMetrics

InitCall(df) == InitCallWith(df, ShortRanges)

\* raw batches: at most MaxRecs records, timestamps repeated or not, listed
\* in ascending or in descending order, with or without the timestamp
\* column; the empty batch included
Init ==
    \E n \in 0..MaxRecs : \E f \in Ascending(n, 0) : \E descending, with_timestamp \in BOOLEAN :
        InitCall(IF with_timestamp THEN Batch(f, descending)
                 ELSE DropTimestamp(Batch(f, descending)))

\* variant of clean_and_process_data that loses the volume frame
clean_and_process_data_prices_only ==
    /\ pc = "ready"
    /\ raw # <<>>
    /\ HasTimestamp(raw)
    /\ \E merged \in MergedFrames(raw) :
        LET df == Filled(merged)
        IN  /\ prices_df' = PricesOf(merged, df)
            /\ volumes_df' = <<>>
    /\ pc' = "returned"
    /\ UNCHANGED <<raw, tie_order, twiceVars, restVars, appVars>>

\* clean_and_process_data on a non-empty batch: returns the two frames
clean_and_process_data ==
    /\ pc = "ready"
    /\ raw # <<>>
    /\ HasTimestamp(raw)
    /\ \E merged \in MergedFrames(raw) :
        LET df == Filled(merged)
        IN  /\ prices_df' = PricesOf(merged, df)
            /\ volumes_df' = VolumesOf(df)
    /\ pc' = "returned"
    /\ UNCHANGED <<raw, tie_order, twiceVars, restVars, appVars>>

\* variant of clean_and_process_data_raises that hands the caller a pair of
\* empty frames instead of raising
clean_and_process_data_returns_empty ==
    /\ pc = "ready"
    /\ raw = <<>> \/ ~HasTimestamp(raw)
    /\ pc' = "returned"
    /\ UNCHANGED <<raw, prices_df, volumes_df, tie_order, twiceVars, restVars, appVars>>

\* clean_and_process_data when a statement of the try block fails: on an
\* empty batch min() and max() of no timestamps are NaT and date_range
\* rejects them, on a batch without the timestamp column sort_values raises
\* KeyError; line 73 turns either into BMRSError and nothing is returned
clean_and_process_data_raises ==
    /\ pc = "ready"
    /\ raw = <<>> \/ ~HasTimestamp(raw)
    /\ pc' = "raised"
    /\ UNCHANGED <<raw, prices_df, volumes_df, tie_order, twiceVars, restVars, appVars>>

Next == clean_and_process_data \/ clean_and_process_data_raises

Spec == Init /\ [][Next]_vars

TypeOK == pc \in {"ready", "returned", "raised", "summarised"}

\* ------------------------------------------- the same batch processed twice
\* the caller keeps the pair a first call returned and calls again on the
\* same raw batch
call_again ==
    /\ pc = "returned"
    /\ prev_prices = <<>>
    /\ prev_prices' = prices_df
    /\ prev_volumes' = volumes_df
    /\ prices_df' = <<>>
    /\ volumes_df' = <<>>
    /\ pc' = "ready"
    /\ UNCHANGED <<raw, tie_order, calls_between, restVars, appVars>>

\* between the two calls clean_and_process_data runs on another batch, of
\* one record, and returns that batch's frames; the method is static and
\* works on a copy (line 16), so nothing else changes
call_between ==
    /\ pc = "ready"
    /\ prev_prices # <<>>
    /\ calls_between < MaxBetween
    /\ \E x \in 0..(Len(Payloads) - 1) :
        \E srt \in sort_values(Coerce(<<RecordAt(x)>>)) :
            LET merged == merge(expected_periods(srt), srt)
                df == Filled(merged)
            IN  /\ prices_df' = PricesOf(merged, df)
                /\ volumes_df' = VolumesOf(df)
    /\ calls_between' = calls_between + 1
    /\ UNCHANGED <<raw, pc, tie_order, prev_prices, prev_volumes, restVars, appVars>>

\* batches of at most MaxTwiceRecs records, all with the timestamp column
InitTwice ==
    \E n \in 0..MaxTwiceRecs : \E f \in Ascending(n, 0) : \E descending \in BOOLEAN :
        InitCall(Batch(f, descending))

NextTwice ==
    \/ clean_and_process_data
    \/ clean_and_process_data_raises
    \/ call_again
    \/ call_between

SpecTwice == InitTwice /\ [][NextTwice]_vars

\* ------------------------------------------------ get_data_quality_summary
\* (df[col] == q).sum()
CountQuality(df, col, q) == Cardinality({i \in 1..Len(df) : df[i][col] = q})

\* variant of Pct that leaves the fraction unscaled
Pct_fraction(count, total) ==
    LET g == GCD(count, total)
    IN  [num |-> count \div g, den |-> total \div g]

\* line 126: count / total * 100, kept as the reduced fraction num / den
\* (the code rounds it to a float64)
Pct(count, total) ==
    LET g == GCD(count * 100, total)
    IN  [num |-> (count * 100) \div g, den |-> total \div g]

\* lines 108-114 and 123-126, the 'prices' entry
PriceSummary(df) ==
    LET total == Len(df)
        missing == CountQuality(df, "price_quality", "Missing")
        interpolated == CountQuality(df, "price_quality", "Interpolated")
        anomalies == CountQuality(df, "price_quality", "Anomaly")
    IN  [total_periods |-> total,
         missing_periods |-> missing,
         interpolated_periods |-> interpolated,
         anomalies |-> anomalies,
         missing_periods_pct |-> Pct(missing, total),
         interpolated_periods_pct |-> Pct(interpolated, total),
         anomalies_pct |-> Pct(anomalies, total)]

\* lines 115-119 and 123-126, the 'volumes' entry
VolumeSummary(df) ==
    LET total == Len(df)
        missing == CountQuality(df, "volume_quality", "Missing")
        interpolated == CountQuality(df, "volume_quality", "Interpolated")
    IN  [total_periods |-> total,
         missing_periods |-> missing,
         interpolated_periods |-> interpolated,
         missing_periods_pct |-> Pct(missing, total),
         interpolated_periods_pct |-> Pct(interpolated, total)]

\* get_data_quality_summary on the pair clean_and_process_data returned
get_data_quality_summary ==
    /\ pc = "returned"
    /\ summary' = [prices |-> PriceSummary(prices_df), volumes |-> VolumeSummary(volumes_df)]
    /\ pc' = "summarised"
    /\ UNCHANGED <<raw, prices_df, volumes_df, tie_order, twiceVars, analysisVars, fetchVars, appVars>>

NextSummary ==
    \/ clean_and_process_data
    \/ clean_and_process_data_raises
    \/ get_data_quality_summary

SpecSummary == Init /\ [][NextSummary]_vars

\* --------------------------------------------------- analyse_hourly_volumes
\* timestamp.dt.hour and timestamp.dt.date; slot 0 is midnight of day 0
hour(t) == (t \div SlotsPerHour) % HoursPerDay
date(t) == t \div PeriodsPerDay

\* sum of a column over the rows S, null cells skipped
RECURSIVE SumOver(_, _, _)
SumOver(df, col, S) ==
    IF S = {} THEN 0
    ELSE LET i == CHOOSE k \in S : TRUE
         IN  (IF isna(df[i][col]) THEN 0 ELSE df[i][col].v) + SumOver(df, col, S \ {i})

\* the hours the frame has rows for, ascending
RECURSIVE Ordered(_)
Ordered(S) ==
    IF S = {} THEN <<>>
    ELSE LET m == CHOOSE x \in S : \A y \in S : x <= y
         IN  <<m>> \o Ordered(S \ {m})

\* DataFrame.round(2) on the cell c counting 1/den: np.round scales by 100
\* and rounds to the nearest integer, halves to the even one; the result
\* counts hundredths (volume_analysis.py line 22, imbalance_analysis.py
\* line 40)
round2(c, den) ==
    IF c.nan THEN NaN
    ELSE LET n == c.v * 100
             q == n \div den
             r == n % den
         IN  Float(IF 2 * r < den THEN q
                   ELSE IF 2 * r > den THEN q + 1
                   ELSE IF q % 2 = 0 THEN q ELSE q + 1)

\* lines 19-22: one row per hour of day with the sums of the absolute and
\* of the net volume, rounded to 2 decimals (the means, deviations, minima
\* and maxima are not modelled)
groupby_hour(df) ==
    LET hours == Ordered({hour(df[i].timestamp) : i \in 1..Len(df)})
    IN  [n \in 1..Len(hours) |->
            LET rows == {i \in 1..Len(df) : hour(df[i].timestamp) = hours[n]}
            IN  [hour |-> hours[n],
                 abs_sum |-> round2(Float(SumOver(df, "abs_imbalance_volume", rows)), Scale),
                 net_sum |-> round2(Float(SumOver(df, "net_imbalance_volume", rows)), Scale)]]

\* analyse_hourly_volumes(frame).  An empty DataFrame has no 'timestamp'
\* column and line 15 raises KeyError.  On any other frame the statistics
\* are computed, then _identify_peak_hours calls .sise() on a groupby
\* object (line 53), which raises AttributeError.  Line 33 turns both into
\* BMRSError, so no call returns.
analyse_hourly_volumes(frame) ==
    /\ analysis_pc = "idle"
    /\ analysed' = frame
    /\ IF frame = <<>>
       THEN analysis_pc' = "raised"
       ELSE LET stats == groupby_hour(frame)
            IN  /\ Len(stats) >= 1
                /\ analysis_pc' = "raised"
    /\ hourly_stats' = <<>>
    /\ UNCHANGED <<procVars, twiceVars, summary, fetchVars, appVars>>

\* ------------------------------------------------------- the test fixture
\* positions of the missing values in sample_raw_data (0-based)
FixtureMissingSell == 5
FixtureMissingBuy == 6
FixtureMissingVolume == 7

\* sample_raw_data: PeriodsPerDay half-hourly records from midnight, sell
\* prices in (80, 90), buy prices in (90, 100), volumes in (-1000, 1000),
\* one value of each column missing.  near gives the values next to the
\* missing ones, the other values are fixed.
sample_raw_data(near) ==
    [i \in 1..PeriodsPerDay |->
        LET k == i - 1
        IN  [timestamp |-> k,
             systemSellPrice |->
                 IF k = FixtureMissingSell THEN Null
                 ELSE IF k = FixtureMissingSell - 1 THEN Num(near[1])
                 ELSE IF k = FixtureMissingSell + 1 THEN Num(near[2])
                 ELSE Num(85),
             systemBuyPrice |->
                 IF k = FixtureMissingBuy THEN Null
                 ELSE IF k = FixtureMissingBuy - 1 THEN Num(near[3])
                 ELSE IF k = FixtureMissingBuy + 1 THEN Num(near[4])
                 ELSE Num(95),
             netImbalanceVolume |->
                 IF k = FixtureMissingVolume THEN Null
                 ELSE IF k = FixtureMissingVolume - 1 THEN Num(near[5])
                 ELSE IF k = FixtureMissingVolume + 1 THEN Num(near[6])
                 ELSE Num(100)]]

InitFixture ==
    \E s1, s2 \in {81, 89} : \E b1, b2 \in {91, 99} : \E v1, v2 \in {-900, 900} :
        InitCall(sample_raw_data(<<s1, s2, b1, b2, v1, v2>>))

NextFixture ==
    \/ clean_and_process_data
    \/ get_data_quality_summary
    \/ \E frame \in {<<>>, volumes_df} : analyse_hourly_volumes(frame)

SpecFixture == InitFixture /\ [][NextFixture]_vars

\* ---------------------------------------------- get_historic_imbalance_data
Dates == 0..MaxDate

\* a record of the API's 'data' list for settlement date d, period p
ApiRecord(d, p) ==
    [settlementDate |-> d, settlementPeriod |-> p,
     startTime |-> d * PeriodsPerDay + (p - 1)]

\* what the endpoint can answer for date d: the request fails; the data
\* carry no startTime (the mock of src/tests/test_bmrs.py); one record; two
\* records, the later period first
ApiResponses(d) ==
    << [status |-> "fail", data |-> <<>>],
       [status |-> "ok", data |-> <<[settlementDate |-> d, settlementPeriod |-> 1]>>],
       [status |-> "ok", data |-> <<ApiRecord(d, 1)>>],
       [status |-> "ok", data |-> <<ApiRecord(d, 2), ApiRecord(d, 1)>>] >>

\* line 78: sort_values(['settlementDate', 'settlementPeriod'])
RECURSIVE sort_by_period(_)
sort_by_period(df) ==
    IF df = <<>> THEN <<>>
    ELSE LET i == CHOOSE k \in 1..Len(df) :
                    \A j \in 1..Len(df) :
                        \/ df[k].settlementDate < df[j].settlementDate
                        \/ /\ df[k].settlementDate = df[j].settlementDate
                           /\ df[k].settlementPeriod <= df[j].settlementPeriod
         IN  <<df[i]>> \o sort_by_period(RemoveAt(df, i))

\* get_imbalance_data (lines 22-92) on the answer resp: BMRSError when the
\* request fails, when there are no data or when no record has a startTime
\* (line 75, KeyError); else the frame with its timestamp column, sorted
\* by settlement period
get_imbalance_data(resp) ==
    IF \/ resp.status = "fail"
       \/ resp.data = <<>>
       \/ \A i \in 1..Len(resp.data) : "startTime" \notin DOMAIN resp.data[i]
    THEN [ok |-> FALSE, df |-> <<>>]
    ELSE [ok |-> TRUE,
          df |-> sort_by_period(
                    [i \in 1..Len(resp.data) |->
                        [settlementDate |-> resp.data[i].settlementDate,
                         settlementPeriod |-> resp.data[i].settlementPeriod,
                         startTime |-> resp.data[i].startTime,
                         timestamp |-> resp.data[i].startTime]])]

\* line 130: pd.concat(all_data, ignore_index=True)
RECURSIVE concat(_)
concat(frames) ==
    IF frames = <<>> THEN <<>> ELSE frames[1] \o concat(Tail(frames))

\* lines 100-109: the dates are parsed and compared, the loop starts
get_historic_imbalance_data ==
    /\ fetch_pc = "called"
    /\ IF end_date < start_date
       THEN fetch_pc' = "raised" /\ UNCHANGED current_date
       ELSE fetch_pc' = "loop" /\ current_date' = start_date
    /\ all_data' = <<>>
    /\ UNCHANGED <<start_date, end_date, responses, api_calls, combined_df,
                   procVars, twiceVars, summary, analysisVars, appVars>>

\* variant of fetch_date in which a date that fails ends the whole call
fetch_date_aborts ==
    /\ fetch_pc = "loop"
    /\ current_date <= end_date
    /\ api_calls' = Append(api_calls, current_date)
    /\ LET res == get_imbalance_data(responses[current_date])
       IN  IF res.ok
           THEN /\ all_data' = (IF res.df # <<>> THEN Append(all_data, res.df) ELSE all_data)
                /\ fetch_pc' = "loop"
           ELSE /\ all_data' = all_data
                /\ fetch_pc' = "raised"
    /\ current_date' = current_date + 1
    /\ UNCHANGED <<start_date, end_date, responses, combined_df,
                   procVars, twiceVars, summary, analysisVars, appVars>>

\* lines 111-120, one turn of the loop: the date is fetched; a non-empty
\* frame is kept, a BMRSError is logged and the date skipped
fetch_date ==
    /\ fetch_pc = "loop"
    /\ current_date <= end_date
    /\ api_calls' = Append(api_calls, current_date)
    /\ LET res == get_imbalance_data(responses[current_date])
       IN  all_data' = (IF res.ok /\ res.df # <<>> THEN Append(all_data, res.df)
                        ELSE all_data)
    /\ current_date' = current_date + 1
    /\ UNCHANGED <<start_date, end_date, responses, fetch_pc, combined_df,
                   procVars, twiceVars, summary, analysisVars, appVars>>

\* lines 122-137, after the loop: BMRSError when nothing was collected,
\* else the frames are concatenated and sorted by timestamp (the frames of
\* get_imbalance_data all have the same columns, so lines 126-127 keep
\* every column)
combine ==
    /\ fetch_pc = "loop"
    /\ current_date > end_date
    /\ IF all_data = <<>>
       THEN fetch_pc' = "raised" /\ UNCHANGED combined_df
       ELSE /\ fetch_pc' = "returned"
            /\ combined_df' \in sort_values(concat(all_data))
    /\ UNCHANGED <<start_date, end_date, responses, current_date, all_data, api_calls,
                   procVars, twiceVars, summary, analysisVars, appVars>>

\* a call with any two dates, against any answers of the endpoint
InitFetch ==
    /\ start_date \in Dates
    /\ end_date \in Dates
    /\ \E choice \in [Dates -> DOMAIN ApiResponses(0)] :
          responses = [d \in Dates |-> ApiResponses(d)[choice[d]]]
    /\ current_date = 0
    /\ all_data = <<>>
    /\ api_calls = <<>>
    /\ fetch_pc = "called"
    /\ combined_df = <<>>
    /\ raw = <<>>
    /\ tie_order = <<>>
    /\ pc = "ready"
    /\ prices_df = <<>>
    /\ volumes_df = <<>>
    /\ prev_prices = <<>>
    /\ prev_volumes = <<>>
    /\ calls_between = 0
    /\ summary = NoSummary
    /\ analysis_pc = "idle"
    /\ analysed = <<>>
    /\ hourly_stats = <<>>
    /\ NewBMRSAnalysis
    /\ run_ranges = ShortRanges
    /\ NoMetrics

NextFetch == get_historic_imbalance_data \/ fetch_date \/ combine

SpecFetch == InitFetch /\ [][NextFetch]_vars

\* ------------------------------------------------------------ BMRSAnalysis

\* what the endpoint answers during one run: records whose startTime ends in
\* 'Z'; records whose startTime carries 'Z' or the offset '+01:00'; an empty
\* 'data' list; a failed request for the first date; one for the last date
AnswerKinds == {"ok", "mixed_offsets", "no_records", "fail_first", "fail_last"}

\* an item of the API's 'data' list: period p of settlement date d
ApiItem(d, p, suffix) ==
    [startTime |-> [slot |-> d * PeriodsPerDay + (p - 1), suffix |-> suffix],
     settlementPeriod |-> p,
     systemBuyPrice |-> 110 + d,
     systemSellPrice |-> 100,
     netImbalanceVolume |-> IF p = 1 THEN -40 - d ELSE 40,
     settlementDate |-> d]

\* ImbalanceData.from_api_response: rstrip('Z') leaves a naive timestamp,
\* any other suffix is kept and parsed by fromisoformat as a UTC offset
from_api_response(data) ==
    [timestamp |-> [slot |-> data.startTime.slot,
                    tz |-> IF data.startTime.suffix = "Z" THEN "naive"
                           ELSE data.startTime.suffix],
     settlement_period |-> data.settlementPeriod,
     system_buy_price |-> Float(data.systemBuyPrice * Scale),
     system_sell_price |-> Float(data.systemSellPrice * Scale),
     net_imbalance_volume |-> Float(data.netImbalanceVolume * Scale),
     settlement_date |-> data.settlementDate]

\* the JSON body the endpoint returns for date d in a run over first..last,
\* or the failure of the request
Response(kind, d, first, last) ==
    IF (kind = "fail_first" /\ d = first) \/ (kind = "fail_last" /\ d = last)
    THEN [ok |-> FALSE, data |-> <<>>]
    ELSE IF kind = "no_records" THEN [ok |-> TRUE, data |-> <<>>]
    ELSE IF kind = "mixed_offsets"
         THEN [ok |-> TRUE, data |-> <<ApiItem(d, 1, "Z"), ApiItem(d, 2, "+01:00")>>]
    ELSE [ok |-> TRUE, data |-> <<ApiItem(d, 1, "Z"), ApiItem(d, 2, "Z")>>]

\* APIService.get_imbalance_data: any failure is raised as BMRSError (ok
\* FALSE), otherwise one ImbalanceData per item of 'data'
api_service_get_imbalance_data(response) ==
    IF ~response.ok THEN [ok |-> FALSE, data |-> <<>>]
    ELSE [ok |-> TRUE,
          data |-> [i \in 1..Len(response.data) |-> from_api_response(response.data[i])]]

\* list.extend over the answers of all dates, in date order
RECURSIVE extend(_)
extend(lists) ==
    IF Len(lists) = 0 THEN <<>>
    ELSE IF Len(lists) = 1 THEN lists[1]
    ELSE LET half == Len(lists) \div 2
         IN  extend(SubSeq(lists, 1, half)) \o extend(SubSeq(lists, half + 1, Len(lists)))

\* DataService.convert_to_dataframe: one row per ImbalanceData, one column
\* per field
convert_to_dataframe(data) == data

\* DataService.process_data: df['timestamp'] of a frame without rows (and so
\* without columns) raises KeyError
process_data(df) ==
    IF df = <<>> THEN [ok |-> FALSE, prices |-> <<>>, volumes |-> <<>>]
    ELSE [ok |-> TRUE,
          prices |-> [i \in 1..Len(df) |->
              [timestamp |-> df[i].timestamp,
               system_sell_price |-> df[i].system_sell_price,
               system_buy_price |-> df[i].system_buy_price,
               price_spread |-> Sub(df[i].system_buy_price, df[i].system_sell_price)]],
          volumes |-> [i \in 1..Len(df) |->
              [timestamp |-> df[i].timestamp,
               net_imbalance_volume |-> df[i].net_imbalance_volume,
               abs_imbalance_volume |-> Abs(df[i].net_imbalance_volume)]]]

\* the timestamp column has a datetime dtype only if its values are all
\* naive or all of one offset; otherwise it is an object column
IsDatetimeColumn(df) ==
    \A i, j \in 1..Len(df) : df[i].timestamp.tz = df[j].timestamp.tz

\* Series.sum() of a column given as a sequence of cells, NaN skipped
RECURSIVE SumCells(_)
SumCells(cells) ==
    IF Len(cells) = 0 THEN 0
    ELSE IF Len(cells) = 1 THEN (IF isna(cells[1]) THEN 0 ELSE cells[1].v)
    ELSE LET half == Len(cells) \div 2
         IN  SumCells(SubSeq(cells, 1, half)) + SumCells(SubSeq(cells, half + 1, Len(cells)))

\* AnalysisService._generate_volume_report: the first hour with the largest
\* sum, and that sum
_generate_volume_report(stats) ==
    LET peak == CHOOSE n \in 1..Len(stats) :
                    /\ \A m \in 1..Len(stats) : stats[m].sum <= stats[n].sum
                    /\ \A m \in 1..(n - 1) : stats[m].sum < stats[n].sum
    IN  [peak_hour |-> stats[peak].hour, peak_volume |-> stats[peak].sum]

\* AnalysisService.analyse_volumes: .dt on an object column raises
\* AttributeError; otherwise one row per hour of day with the sum of the
\* absolute volume (mean and std are not modelled), and the report
analyse_volumes(df) ==
    IF ~IsDatetimeColumn(df) THEN [ok |-> FALSE, hourly_stats |-> <<>>, report |-> <<>>]
    ELSE LET hours == Ordered({hour(df[i].timestamp.slot) : i \in 1..Len(df)})
             stats == [n \in 1..Len(hours) |->
                          [hour |-> hours[n],
                           sum |-> SumCells(Column(
                               SelectSeq(df, LAMBDA r : hour(r.timestamp.slot) = hours[n]),
                               "abs_imbalance_volume"))]]
         IN  [ok |-> TRUE, hourly_stats |-> stats, report |-> _generate_volume_report(stats)]

\* BMRSAnalysis._generate_daily_reports: .dt on an object column raises
\* AttributeError at the first date; otherwise a report for every date of
\* the range that has rows
_generate_daily_reports(df, first, last) ==
    LET with_data == {d \in first..last : \E i \in 1..Len(df) : date(df[i].timestamp.slot) = d}
    IN  IF first <= last /\ ~IsDatetimeColumn(df) THEN [ok |-> FALSE, reports |-> <<>>]
        ELSE [ok |-> TRUE,
              reports |-> [d \in with_data |->
                  analyse_volumes(SelectSeq(df, LAMBDA r : date(r.timestamp.slot) = d)).report]]

\* the number of null cells of a frame
Nulls(df, cols) == Cardinality({<<i, c>> \in (1..Len(df)) \X cols : isna(df[i][c])})

\* BMRSAnalysis._calculate_quality_metrics: the mean over the columns of a
\* column's share of nulls (the timestamp column has none), and the share of
\* rows with a negative spread, or with a zero volume, as percentages
_calculate_quality_metrics(prices, volumes) ==
    [prices |->
        [missing_rate |->
            Pct(Nulls(prices, {"system_sell_price", "system_buy_price", "price_spread"}),
                4 * Len(prices)),
         anomaly_rate |->
            Pct(Cardinality({i \in 1..Len(prices) : LtZero(prices[i].price_spread)}),
                Len(prices))],
     volumes |->
        [missing_rate |->
            Pct(Nulls(volumes, {"net_imbalance_volume", "abs_imbalance_volume"}),
                3 * Len(volumes)),
         sero_volume_rate |->
            Pct(Cardinality({i \in 1..Len(volumes) :
                    volumes[i].abs_imbalance_volume = Float(0)}),
                Len(volumes))]]

\* BMRSAnalysis._validate_dates: TRUE if it returns, FALSE if it raises
_validate_dates(first, last) ==
    /\ ~(last < first)
    /\ ~(last - first > Window)

\* the answers tried with a range: every kind for one and two dates; for
\* the longest accepted range records for every date, or a failure at the
\* last date; a rejected range makes no request
AnswersFor(len) ==
    IF len \in {0, 1} THEN AnswerKinds
    ELSE IF len = Window THEN {"ok", "fail_last"}
    ELSE {"ok"}

\* the arguments and answers of the calls: caller "A" makes every call of
\* the ranges of the instance, caller "B", whose calls overlap those of "A",
\* fetches one date that the endpoint answers with records
Arguments(c) ==
    IF c = "A"
    THEN UNION {{[start_date |-> first, end_date |-> first + len, answers |-> kind] :
                    first \in 0..MaxStart, kind \in AnswersFor(len)} : len \in run_ranges}
    ELSE {[start_date |-> 1, end_date |-> 1, answers |-> "ok"]}

\* the call of caller c is between its entry and its return or raise
InProgress(c) == run_pc[c] \notin {"idle", "returned", "raised"}

\* get_dataframes is between its entry and its return or raise
GdInProgress == gd_pc \in {"tested", "loaded"}

\* what a step of the call of c means to get_dataframes: a call of
\* get_dataframes that has ended is out of date, one in progress is no
\* longer alone
RunStep(c) ==
    /\ run_last' = c
    /\ IF GdInProgress
       THEN /\ gd_alone' = FALSE
            /\ UNCHANGED <<gd_pc, gd_result>>
       ELSE /\ gd_pc' = "idle"
            /\ gd_result' = <<>>
            /\ gd_alone' = TRUE

\* caller c calls BMRSAnalysis.run_analysis with a start date and an end
\* date, the endpoint answering as 'kind' (lines 23-32): _validate_dates
\* raises, or the loop starts with an empty raw_data.  A caller makes its
\* next call when its last one has ended; nothing keeps it from calling
\* while the call of another caller is in progress.  MaxRuns calls are made
\* on an instance.
run_analysis(c) ==
    /\ ~InProgress(c)
    /\ run_count < MaxRuns
    /\ run_count' = run_count + 1
    /\ \E args \in Arguments(c) :
          /\ run_args' = [run_args EXCEPT ![c] = args]
          /\ run_pc' = [run_pc EXCEPT ![c] =
                 IF _validate_dates(args.start_date, args.end_date)
                 THEN "fetching" ELSE "raised"]
    /\ run_calls' = [run_calls EXCEPT ![c] = <<>>]
    /\ run_raw_data' = [run_raw_data EXCEPT ![c] = <<>>]
    /\ run_frame' = [run_frame EXCEPT ![c] = <<>>]
    /\ run_result' = [run_result EXCEPT ![c] = NoResult]
    /\ overlapped' = [d \in Callers |->
           IF d = c THEN \E e \in Callers \ {c} : InProgress(e)
           ELSE overlapped[d] \/ InProgress(d)]
    /\ run_stored' = IF run_stored = c THEN "earlier" ELSE run_stored
    /\ RunStep(c)
    /\ UNCHANGED <<_raw_data, _prices_df, _volumes_df>>
    /\ UNCHANGED <<procVars, twiceVars, restVars, metricsVars, run_ranges>>

\* one turn of the loop of lines 34-38 in the call of c: the request for
\* current_date; a failed request ends the call with BMRSError, an answer is
\* appended to raw_data
run_analysis_fetch(c) ==
    LET run_date == run_args[c].start_date + Len(run_calls[c])
        data == api_service_get_imbalance_data(
                    Response(run_args[c].answers, run_date,
                             run_args[c].start_date, run_args[c].end_date))
    IN  /\ run_pc[c] = "fetching"
        /\ run_date <= run_args[c].end_date
        /\ run_calls' = [run_calls EXCEPT ![c] = Append(@, run_date)]
        /\ IF data.ok
           THEN /\ run_raw_data' = [run_raw_data EXCEPT ![c] = @ \o data.data]
                /\ run_pc' = run_pc
           ELSE /\ run_raw_data' = run_raw_data
                /\ run_pc' = [run_pc EXCEPT ![c] = "raised"]
        /\ RunStep(c)
        /\ UNCHANGED <<_raw_data, _prices_df, _volumes_df, run_args, run_frame, run_result,
                       overlapped, run_count, run_stored>>
        /\ UNCHANGED <<procVars, twiceVars, restVars, metricsVars, run_ranges>>

\* line 41 in the call of c, after the loop: the frame of raw_data is stored
\* in self._raw_data
run_analysis_convert(c) ==
    /\ run_pc[c] = "fetching"
    /\ run_args[c].start_date + Len(run_calls[c]) > run_args[c].end_date
    /\ _raw_data' = Some(convert_to_dataframe(run_raw_data[c]))
    /\ run_pc' = [run_pc EXCEPT ![c] = "converted"]
    /\ RunStep(c)
    /\ UNCHANGED <<_prices_df, _volumes_df, run_args, run_calls, run_raw_data, run_frame,
                   run_result, overlapped, run_count, run_stored>>
    /\ UNCHANGED <<procVars, twiceVars, restVars, metricsVars, run_ranges>>

\* line 44 in the call of c, the argument: self._raw_data is read as it is
\* now and process_data is entered with it
run_analysis_read(c) ==
    /\ run_pc[c] = "converted"
    /\ run_frame' = [run_frame EXCEPT ![c] = _raw_data.df]
    /\ run_pc' = [run_pc EXCEPT ![c] = "processing"]
    /\ RunStep(c)
    /\ UNCHANGED <<_raw_data, _prices_df, _volumes_df, run_args, run_calls, run_raw_data,
                   run_result, overlapped, run_count, run_stored>>
    /\ UNCHANGED <<procVars, twiceVars, restVars, metricsVars, run_ranges>>

\* line 44 in the call of c, the call and the first target: process_data,
\* given the frame that was read, raises, or returns the pair whose first
\* element is assigned to self._prices_df
run_analysis_process(c) ==
    LET processed == process_data(run_frame[c])
    IN  /\ run_pc[c] = "processing"
        /\ IF ~processed.ok
           THEN /\ run_pc' = [run_pc EXCEPT ![c] = "raised"]
                /\ run_frame' = [run_frame EXCEPT ![c] = <<>>]
                /\ UNCHANGED <<_prices_df, run_stored>>
           ELSE /\ _prices_df' = Some(processed.prices)
                /\ run_stored' = c
                /\ run_pc' = [run_pc EXCEPT ![c] = "prices_stored"]
                /\ run_frame' = run_frame
        /\ RunStep(c)
        /\ UNCHANGED <<_raw_data, _volumes_df, run_args, run_calls, run_raw_data, run_result,
                       overlapped, run_count>>
        /\ UNCHANGED <<procVars, twiceVars, restVars, metricsVars, run_ranges>>

\* line 44 in the call of c, the second target: the second element of the
\* pair process_data returned is assigned to self._volumes_df
run_analysis_store(c) ==
    /\ run_pc[c] = "prices_stored"
    /\ _volumes_df' = Some(process_data(run_frame[c]).volumes)
    /\ run_stored' = c
    /\ run_frame' = [run_frame EXCEPT ![c] = <<>>]
    /\ run_pc' = [run_pc EXCEPT ![c] = "processed"]
    /\ RunStep(c)
    /\ UNCHANGED <<_raw_data, _prices_df, run_args, run_calls, run_raw_data, run_result,
                   overlapped, run_count>>
    /\ UNCHANGED <<procVars, twiceVars, restVars, metricsVars, run_ranges>>

\* line 47 in the call of c: self._volumes_df, as it is now, is analysed; an
\* exception ends the call with BMRSError (lines 62-64) and what was assigned
\* stays assigned
run_analysis_analyse(c) ==
    LET volumes_analysis == analyse_volumes(_volumes_df.df)
    IN  /\ run_pc[c] = "processed"
        /\ IF ~volumes_analysis.ok
           THEN /\ run_pc' = [run_pc EXCEPT ![c] = "raised"]
                /\ run_result' = run_result
           ELSE /\ run_pc' = [run_pc EXCEPT ![c] = "analysed"]
                /\ run_result' = [run_result EXCEPT ![c] =
                       [@ EXCEPT !.hourly_stats = volumes_analysis.hourly_stats,
                                 !.peak_hours_report = volumes_analysis.report]]
        /\ RunStep(c)
        /\ UNCHANGED <<_raw_data, _prices_df, _volumes_df, run_args, run_calls,
                       run_raw_data, run_frame, overlapped, run_count, run_stored>>
        /\ UNCHANGED <<procVars, twiceVars, restVars, metricsVars, run_ranges>>

\* line 50 in the call of c: the daily reports of self._volumes_df as it is
\* now, or an exception, with which the results of line 47 are lost
run_analysis_daily(c) ==
    LET daily == _generate_daily_reports(_volumes_df.df,
                     run_args[c].start_date, run_args[c].end_date)
    IN  /\ run_pc[c] = "analysed"
        /\ IF ~daily.ok
           THEN /\ run_pc' = [run_pc EXCEPT ![c] = "raised"]
                /\ run_result' = [run_result EXCEPT ![c] = NoResult]
           ELSE /\ run_pc' = [run_pc EXCEPT ![c] = "reported"]
                /\ run_result' = [run_result EXCEPT ![c] =
                       [@ EXCEPT !.daily_reports = daily.reports]]
        /\ RunStep(c)
        /\ UNCHANGED <<_raw_data, _prices_df, _volumes_df, run_args, run_calls,
                       run_raw_data, run_frame, overlapped, run_count, run_stored>>
        /\ UNCHANGED <<procVars, twiceVars, restVars, metricsVars, run_ranges>>

\* line 53 in the call of c, the first argument: self._prices_df is read as
\* it is now
run_analysis_quality_read(c) ==
    /\ run_pc[c] = "reported"
    /\ run_frame' = [run_frame EXCEPT ![c] = _prices_df.df]
    /\ run_pc' = [run_pc EXCEPT ![c] = "quality"]
    /\ RunStep(c)
    /\ UNCHANGED <<_raw_data, _prices_df, _volumes_df, run_args, run_calls, run_raw_data,
                   run_result, overlapped, run_count, run_stored>>
    /\ UNCHANGED <<procVars, twiceVars, restVars, metricsVars, run_ranges>>

\* line 53 in the call of c, the second argument and the call, and lines
\* 55-60: self._volumes_df is read as it is now, the quality metrics of the
\* two frames read are computed and the call returns its AnalysisResult
run_analysis_quality(c) ==
    /\ run_pc[c] = "quality"
    /\ run_result' = [run_result EXCEPT ![c] =
           [@ EXCEPT !.data_quality =
                _calculate_quality_metrics(run_frame[c], _volumes_df.df)]]
    /\ run_frame' = [run_frame EXCEPT ![c] = <<>>]
    /\ run_pc' = [run_pc EXCEPT ![c] = "returned"]
    /\ RunStep(c)
    /\ UNCHANGED <<_raw_data, _prices_df, _volumes_df, run_args, run_calls,
                   run_raw_data, overlapped, run_count, run_stored>>
    /\ UNCHANGED <<procVars, twiceVars, restVars, metricsVars, run_ranges>>

\* variant of get_dataframes without the test of line 68
get_dataframes_unchecked ==
    /\ ~GdInProgress
    /\ gd_pc' = "tested"
    /\ gd_result' = <<>>
    /\ gd_alone' = TRUE
    /\ UNCHANGED <<_raw_data, _prices_df, _volumes_df, callVars, overlapped, run_count,
                   run_last, run_stored>>
    /\ UNCHANGED <<procVars, twiceVars, restVars, metricsVars, run_ranges>>

\* BMRSAnalysis.get_dataframes is called (line 68): BMRSError if one of the
\* two attributes is None.  The step stands at the test that decides: each
\* attribute goes from None to a frame and never back, so the first test
\* fails only where the step fails too, and the second fails, or both pass,
\* only where the step, taken at the second test, does the same.
get_dataframes ==
    /\ ~GdInProgress
    /\ gd_pc' = IF ~_prices_df.present \/ ~_volumes_df.present THEN "raised" ELSE "tested"
    /\ gd_result' = <<>>
    /\ gd_alone' = TRUE
    /\ UNCHANGED <<_raw_data, _prices_df, _volumes_df, callVars, overlapped, run_count,
                   run_last, run_stored>>
    /\ UNCHANGED <<procVars, twiceVars, restVars, metricsVars, run_ranges>>

\* line 70 of get_dataframes, the first element: self._prices_df is read as
\* it is now
get_dataframes_load ==
    /\ gd_pc = "tested"
    /\ gd_pc' = "loaded"
    /\ gd_result' = <<_prices_df.df>>
    /\ UNCHANGED <<_raw_data, _prices_df, _volumes_df, callVars, overlapped, run_count,
                   run_last, run_stored, gd_alone>>
    /\ UNCHANGED <<procVars, twiceVars, restVars, metricsVars, run_ranges>>

\* line 70 of get_dataframes, the second element and the return:
\* self._volumes_df is read as it is now
get_dataframes_return ==
    /\ gd_pc = "loaded"
    /\ gd_pc' = "returned"
    /\ gd_result' = <<gd_result[1], _volumes_df.df>>
    /\ UNCHANGED <<_raw_data, _prices_df, _volumes_df, callVars, overlapped, run_count,
                   run_last, run_stored, gd_alone>>
    /\ UNCHANGED <<procVars, twiceVars, restVars, metricsVars, run_ranges>>

\* a new BMRSAnalysis instance that is called with the short ranges; the
\* cleaning pipeline is not part of it
InitAnalysis == InitCall(<<>>)

NextAnalysis ==
    \/ \E c \in Callers : run_analysis(c)
    \/ \E c \in Callers : run_analysis_fetch(c)
    \/ \E c \in Callers : run_analysis_convert(c)
    \/ \E c \in Callers : run_analysis_read(c)
    \/ \E c \in Callers : run_analysis_process(c)
    \/ \E c \in Callers : run_analysis_store(c)
    \/ \E c \in Callers : run_analysis_analyse(c)
    \/ \E c \in Callers : run_analysis_daily(c)
    \/ \E c \in Callers : run_analysis_quality_read(c)
    \/ \E c \in Callers : run_analysis_quality(c)
    \/ get_dataframes
    \/ get_dataframes_load
    \/ get_dataframes_return

SpecAnalysis == InitAnalysis /\ [][NextAnalysis]_vars

\* a new BMRSAnalysis instance that is called with the long ranges
InitRanges == InitCallWith(<<>>, LongRanges)

SpecRanges == InitRanges /\ [][NextAnalysis]_vars

\* ------------------------------------- calculate_daily_imbalance_metrics
\* In these frames a price cell counts eighths of a pound, a volume cell
\* halves of a MWh, a cost cell sixteenths of a pound: such values are binary
\* fractions, on which float64 products and sums are exact. A cell of the
\* returned frame counts hundredths.

\* float multiplication: NaN if either operand is NaN
Mul(a, b) == IF a.nan \/ b.nan THEN NaN ELSE Float(a.v * b.v)

\* (series >= 0) on one cell: a comparison with NaN is False
GeZero(a) == ~a.nan /\ a.v >= 0

\* lines 16-21: pd.merge(prices_df, volumes_df, on='timestamp', how='inner'):
\* for each price row in order, its join with every volume row of the same
\* timestamp
RECURSIVE merge_inner(_, _)
merge_inner(prices, volumes) ==
    IF Len(prices) = 0 THEN <<>>
    ELSE IF Len(prices) = 1
    THEN LET rows == SelectSeq(volumes, LAMBDA r : r.timestamp = prices[1].timestamp)
         IN  [k \in 1..Len(rows) |->
                 [timestamp |-> prices[1].timestamp,
                  system_sell_price |-> prices[1].system_sell_price,
                  system_buy_price |-> prices[1].system_buy_price,
                  net_imbalance_volume |-> rows[k].net_imbalance_volume,
                  abs_imbalance_volume |-> rows[k].abs_imbalance_volume]]
    ELSE LET half == Len(prices) \div 2
         IN  merge_inner(SubSeq(prices, 1, half), volumes)
             \o merge_inner(SubSeq(prices, half + 1, Len(prices)), volumes)

\* variant of imbalance_cost that values every period at the sell price
imbalance_cost_sell_only(row) == Mul(row.net_imbalance_volume, row.system_sell_price)

\* lines 27-31: np.where(volume >= 0, volume * sell, volume * buy)
imbalance_cost(row) ==
    IF GeZero(row.net_imbalance_volume)
    THEN Mul(row.net_imbalance_volume, row.system_sell_price)
    ELSE Mul(row.net_imbalance_volume, row.system_buy_price)

\* lines 24-40: the merged rows with their date and cost, grouped by date in
\* ascending order; the sums skip NaN and are rounded to 2 decimals (the
\* mean, min and max of the prices and the unit rate are not modelled)
groupby_date(df) ==
    LET costed == [i \in 1..Len(df) |->
                      [date |-> date(df[i].timestamp),
                       imbalance_cost |-> imbalance_cost(df[i]),
                       net_imbalance_volume |-> df[i].net_imbalance_volume,
                       abs_imbalance_volume |-> df[i].abs_imbalance_volume]]
        dates == Ordered({costed[i].date : i \in 1..Len(costed)})
    IN  [n \in 1..Len(dates) |->
            LET group == SelectSeq(costed, LAMBDA r : r.date = dates[n])
            IN  [date |-> dates[n],
                 imbalance_cost |->
                     round2(Float(SumCells(Column(group, "imbalance_cost"))), 16),
                 net_imbalance_volume |->
                     round2(Float(SumCells(Column(group, "net_imbalance_volume"))), 2),
                 abs_imbalance_volume |->
                     round2(Float(SumCells(Column(group, "abs_imbalance_volume"))), 2)]]

\* ImbalanceAnalysis.calculate_daily_imbalance_metrics: a frame without the
\* 'timestamp' column makes pd.merge raise KeyError, raised as BMRSError
calculate_daily_imbalance_metrics ==
    /\ metrics_pc = "ready"
    /\ IF metrics_prices = <<>> \/ metrics_volumes = <<>>
          \/ ~HasTimestamp(metrics_prices) \/ ~HasTimestamp(metrics_volumes)
       THEN /\ metrics_pc' = "raised"
            /\ daily_metrics' = <<>>
       ELSE /\ metrics_pc' = "returned"
            /\ daily_metrics' = groupby_date(merge_inner(metrics_prices, metrics_volumes))
    /\ UNCHANGED <<metrics_prices, metrics_volumes>>
    /\ UNCHANGED <<procVars, twiceVars, restVars, bmrsVars>>

\* the timestamp of the i-th row: two per day
MetricSlot(i) == (i - 1) * (PeriodsPerDay \div 2)

\* what a price frame can hold at a timestamp: no row, (85.125, 95.25),
\* (84, 95.25) or (null, 95.25); a volume frame: no row, 0.5, -0.5 or null
PriceChoices == {"absent", "eighths", "whole", "null"}
VolumeChoices == {"absent", "long", "short", "null"}

PriceRow(i, choice) ==
    [timestamp |-> MetricSlot(i),
     system_sell_price |-> IF choice = "null" THEN NaN
                           ELSE IF choice = "whole" THEN Float(672) ELSE Float(681),
     system_buy_price |-> Float(762)]

VolumeRow(i, choice) ==
    LET v == IF choice = "null" THEN NaN
             ELSE IF choice = "long" THEN Float(1) ELSE Float(-1)
    IN  [timestamp |-> MetricSlot(i), net_imbalance_volume |-> v,
         abs_imbalance_volume |-> Abs(v)]

\* the timestamps a frame has a row for, in order
Present(choices) ==
    SelectSeq([i \in 1..MaxMetricRows |-> i], LAMBDA i : choices[i] # "absent")

\* the frame df without its 'timestamp' column
WithoutTimestamp(df) ==
    [i \in 1..Len(df) |-> [c \in DOMAIN df[i] \ {"timestamp"} |-> df[i][c]]]

\* sample_processed_data of src/tests/test_imbalance_analysis.py: 96
\* half-hourly rows from the start of a day, the random values drawn as
\* sell and buy for the prices and as long and short for the net volumes
\* (the absolute volume, random in the fixture, is that of the net volume)
sample_processed_data(sell, buy, long, short) ==
    [prices |-> [i \in 1..(2 * PeriodsPerDay) |->
                    [timestamp |-> i - 1, system_sell_price |-> Float(sell),
                     system_buy_price |-> Float(buy)]],
     volumes |-> [i \in 1..(2 * PeriodsPerDay) |->
                    [timestamp |-> i - 1,
                     net_imbalance_volume |-> Float(IF i % 2 = 1 THEN long ELSE short),
                     abs_imbalance_volume |-> Float(IF i % 2 = 1 THEN long ELSE -short)]]]

\* everything but calculate_daily_imbalance_metrics is at rest
InitMetricsCall(prices, volumes) ==
    /\ metrics_prices = prices
    /\ metrics_volumes = volumes
    /\ metrics_pc = "ready"
    /\ daily_metrics = <<>>
    /\ raw = <<>>
    /\ tie_order = <<>>
    /\ pc = "ready"
    /\ prices_df = <<>>
    /\ volumes_df = <<>>
    /\ prev_prices = <<>>
    /\ prev_volumes = <<>>
    /\ calls_between = 0
    /\ summary = NoSummary
    /\ analysis_pc = "idle"
    /\ analysed = <<>>
    /\ hourly_stats = <<>>
    /\ NoFetch
    /\ NewBMRSAnalysis
    /\ run_ranges = ShortRanges

\* the frames of a call: rows for some of the timestamps in each frame, the
\* first price row repeated or not, the timestamp column present or not; two
\* frames without rows and columns (test_error_handling); the fixture
InitMetrics ==
    \/ \E p \in [1..MaxMetricRows -> PriceChoices], v \in [1..MaxMetricRows -> VolumeChoices] :
       \E shape \in {"plain", "repeated", "no_timestamp"} :
          LET prices == [k \in 1..Len(Present(p)) |->
                            PriceRow(Present(p)[k], p[Present(p)[k]])]
              volumes == [k \in 1..Len(Present(v)) |->
                             VolumeRow(Present(v)[k], v[Present(v)[k]])]
          IN  /\ prices # <<>>
              /\ volumes # <<>>
              /\ InitMetricsCall(
                     IF shape = "repeated" THEN <<prices[1]>> \o prices ELSE prices,
                     IF shape = "no_timestamp" THEN WithoutTimestamp(volumes) ELSE volumes)
    \/ InitMetricsCall(<<>>, <<>>)
    \/ \E sell \in {641, 719}, buy \in {721, 799}, long \in {1, 501}, short \in {-501, -1} :
          LET fixture == sample_processed_data(sell, buy, long, short)
          IN  InitMetricsCall(fixture.prices, fixture.volumes)

NextMetrics == calculate_daily_imbalance_metrics

SpecMetrics == InitMetrics /\ [][NextMetrics]_vars

\* ------------------------------------------------- vocabulary of the claims
PriceCols == {"systemSellPrice", "systemBuyPrice"}
NumericCols == PriceCols \cup {"netImbalanceVolume"}

\* the calendar of the raw batch: every 30-minute step from its minimum to
\* its maximum timestamp
Calendar == date_range(SeqMin(raw), SeqMax(raw))

\* the raw records of calendar slot t, and their value before any fill
RawAt(t) == {k \in DOMAIN raw : raw[k].timestamp = t}
RawCell(k, col) == to_numeric(raw[k][col])
MissingAt(col, t) == \A k \in RawAt(t) : isna(RawCell(k, col))
PresentAt(col, t) == RawAt(t) # {} /\ \A k \in RawAt(t) : notna(RawCell(k, col))
DistinctTimestamps == \A j, k \in DOMAIN raw : j # k => raw[j].timestamp # raw[k].timestamp

\* the output rows of calendar slot t, and their cells
RowsAt(t) == {i \in DOMAIN prices_df : prices_df[i].timestamp = t}
OutCell(col, i) ==
    CASE col = "systemSellPrice" -> prices_df[i].system_sell_price
      [] col = "systemBuyPrice" -> prices_df[i].system_buy_price
      [] col = "netImbalanceVolume" -> volumes_df[i].net_imbalance_volume
OutQuality(col, i) ==
    IF col = "netImbalanceVolume" THEN volumes_df[i].volume_quality
    ELSE prices_df[i].price_quality
OtherPrice(col, i) ==
    IF col = "systemSellPrice" THEN prices_df[i].system_buy_price
    ELSE prices_df[i].system_sell_price
\* the pre-fill mask of a price column at row i
WasMissing(col, i) ==
    IF col = "systemSellPrice" THEN prices_df[i].is_interpolated_sell
    ELSE prices_df[i].is_interpolated_buy

\* ---------------------------------------------------------------- claims
\* C1: for every non-empty batch of records on 30-minute boundaries, in any
\* order, the price frame and the volume frame have the same number of rows,
\* and that number is the length of the calendar.  (Stated as claimed; a
\* batch that repeats a timestamp refutes it.)
C1_RowCountEqualsCalendar ==
    pc = "returned" =>
        /\ Len(prices_df) = Len(volumes_df)
        /\ Len(prices_df) = Len(Calendar)

\* C2: for every non-empty batch and every row position i, price row i and
\* volume row i carry the same timestamp, the i-th calendar slot.  (Stated
\* as claimed; a batch that repeats a timestamp refutes it.)
C2_RowsAlignedWithCalendar ==
    pc = "returned" =>
        \A i \in DOMAIN prices_df :
            /\ i \in DOMAIN volumes_df
            /\ prices_df[i].timestamp = volumes_df[i].timestamp
            /\ prices_df[i].timestamp = SeqMin(raw) + (i - 1)

\* C3: for every non-empty batch, repeated timestamps included, the
\* timestamps of the returned rows are strictly increasing.  (Stated as
\* claimed; a batch that repeats a timestamp refutes it.)
C3_TimestampsStrictlyIncreasing ==
    pc = "returned" =>
        \A i, j \in DOMAIN prices_df :
            i < j => /\ prices_df[i].timestamp < prices_df[j].timestamp
                     /\ volumes_df[i].timestamp < volumes_df[j].timestamp

\* C4 as claimed: a run of exactly 2 consecutive calendar slots with a
\* missing price, bounded by present values on both sides, is fully filled
\* and both rows have price_quality 'Interpolated'.
C4_RunOfTwoInterpolated ==
    pc = "returned" =>
        \A col \in PriceCols, t \in 1..MaxSlot :
            (/\ PresentAt(col, t - 1)
             /\ MissingAt(col, t) /\ MissingAt(col, t + 1)
             /\ PresentAt(col, t + 2))
            => \A i \in RowsAt(t) \cup RowsAt(t + 1) :
                   /\ notna(OutCell(col, i))
                   /\ prices_df[i].price_quality = "Interpolated"

\* C4 as amended: a run of exactly 2 consecutive output rows whose price was
\* missing before the fill, bounded by rows that had the price on both
\* sides, is fully filled: neither row holds a null for that price, and each
\* row is 'Interpolated' unless its other price is still null after the
\* fill, in which case it is 'Missing'.
C4_RunOfTwoFilled ==
    pc = "returned" =>
        \A col \in PriceCols, i \in DOMAIN prices_df :
            (/\ i > 1 /\ i + 2 <= Len(prices_df)
             /\ ~WasMissing(col, i - 1)
             /\ WasMissing(col, i) /\ WasMissing(col, i + 1)
             /\ ~WasMissing(col, i + 2))
            => \A j \in {i, i + 1} :
                   /\ notna(OutCell(col, j))
                   /\ prices_df[j].price_quality =
                          IF isna(OtherPrice(col, j)) THEN "Missing" ELSE "Interpolated"

\* C4 witness: a bounded run of two missing sell prices was filled and both
\* rows are 'Interpolated'
C4_Witness ==
    /\ pc = "returned"
    /\ \E i \in DOMAIN prices_df :
        /\ i > 1 /\ i + 2 <= Len(prices_df)
        /\ ~WasMissing("systemSellPrice", i - 1)
        /\ WasMissing("systemSellPrice", i) /\ WasMissing("systemSellPrice", i + 1)
        /\ ~WasMissing("systemSellPrice", i + 2)
        /\ prices_df[i].price_quality = "Interpolated"
        /\ prices_df[i + 1].price_quality = "Interpolated"
        /\ prices_df[i].system_sell_price # prices_df[i + 1].system_sell_price

\* C5: a run of 3 or more consecutive calendar slots with a missing value,
\* bounded by present values on both sides, is left entirely unfilled: every
\* slot of the run is still null and 'Missing'.  (Stated as claimed; the
\* fill writes the first two slots of such a run.)
C5_LongRunLeftUnfilled ==
    pc = "returned" =>
        \A col \in NumericCols, a, b \in 0..MaxSlot :
            (/\ b - a >= 4
             /\ PresentAt(col, a) /\ PresentAt(col, b)
             /\ \A t \in (a + 1)..(b - 1) : MissingAt(col, t))
            => \A t \in (a + 1)..(b - 1) : \A i \in RowsAt(t) :
                   /\ isna(OutCell(col, i))
                   /\ OutQuality(col, i) = "Missing"

\* C6: a value missing in the first calendar slots, with no present value at
\* or before the slot, is still null after the fill and its row is
\* 'Missing', whatever the length of the leading run.
C6_LeadingGapStaysMissing ==
    pc = "returned" =>
        \A col \in NumericCols, i \in DOMAIN prices_df :
            (\A k \in DOMAIN raw :
                raw[k].timestamp <= prices_df[i].timestamp => isna(RawCell(k, col)))
            => /\ isna(OutCell(col, i))
               /\ OutQuality(col, i) = "Missing"

\* C6 witness: a leading run of two null sell prices, followed by a row that
\* has a sell price, stayed null
C6_Witness ==
    /\ pc = "returned"
    /\ Len(prices_df) >= 3
    /\ \A k \in DOMAIN raw :
           raw[k].timestamp <= prices_df[2].timestamp => isna(RawCell(k, "systemSellPrice"))
    /\ notna(prices_df[3].system_sell_price)
    /\ isna(prices_df[1].system_sell_price) /\ isna(prices_df[2].system_sell_price)

\* C7: a value missing in the last calendar slots, with no present value at
\* or after the slot, is still null after the fill and its row is 'Missing',
\* even when the trailing run is 1 or 2 slots long.  (Stated as claimed; the
\* fill repeats the last present value into the first two trailing slots.)
C7_TrailingGapStaysMissing ==
    pc = "returned" =>
        \A col \in NumericCols, i \in DOMAIN prices_df :
            (\A k \in DOMAIN raw :
                raw[k].timestamp >= prices_df[i].timestamp => isna(RawCell(k, col)))
            => /\ isna(OutCell(col, i))
               /\ OutQuality(col, i) = "Missing"

\* C8: price_quality is decided by first match in the order Missing,
\* Interpolated, Anomaly, Good: a row with both prices after the fill and a
\* price missing before it is 'Interpolated' even with a negative spread,
\* and a row is 'Good' exactly when both raw prices were present and
\* buy >= sell.
C8_PriceQualityPrecedence ==
    pc = "returned" =>
        \A i \in DOMAIN prices_df :
            LET r == prices_df[i]
                nullAfter == isna(r.system_sell_price) \/ isna(r.system_buy_price)
                filled == r.is_interpolated_sell \/ r.is_interpolated_buy
            IN  /\ nullAfter => r.price_quality = "Missing"
                /\ (~nullAfter /\ filled) => r.price_quality = "Interpolated"
                /\ (~nullAfter /\ ~filled /\ r.system_buy_price.v < r.system_sell_price.v)
                       => r.price_quality = "Anomaly"
                /\ r.price_quality = "Good" <=>
                       (/\ ~filled /\ ~nullAfter
                        /\ r.system_buy_price.v >= r.system_sell_price.v)

\* C8 witness: a filled row whose spread is negative is 'Interpolated', and
\* a row with equal raw prices is 'Good'
C8_Witness ==
    /\ pc = "returned"
    /\ \E i \in DOMAIN prices_df :
        /\ prices_df[i].is_interpolated_sell
        /\ notna(prices_df[i].price_spread) /\ prices_df[i].price_spread.v < 0
        /\ prices_df[i].price_quality = "Interpolated"
    /\ \E i \in DOMAIN prices_df :
        /\ prices_df[i].price_quality = "Good"
        /\ prices_df[i].price_spread.v = 0

\* C9: a row whose buy price or sell price is still null after the fill is
\* 'Missing', never 'Anomaly' or 'Interpolated', whatever the other price
\* and the pre-fill flags are.
C9_NullAfterFillIsMissing ==
    pc = "returned" =>
        \A i \in DOMAIN prices_df :
            (isna(prices_df[i].system_buy_price) \/ isna(prices_df[i].system_sell_price))
            => /\ prices_df[i].price_quality = "Missing"
               /\ prices_df[i].price_quality \notin {"Anomaly", "Interpolated"}

\* C9 witness: a row has a sell price but no buy price after the fill, its
\* buy flag is set, and it is 'Missing'
C9_Witness ==
    /\ pc = "returned"
    /\ \E i \in DOMAIN prices_df :
        /\ isna(prices_df[i].system_buy_price)
        /\ notna(prices_df[i].system_sell_price)
        /\ prices_df[i].is_interpolated_buy /\ ~prices_df[i].is_interpolated_sell
        /\ prices_df[i].price_quality = "Missing"

\* C10: every calendar slot whose raw record has both prices present with
\* sell > buy gets price_quality 'Anomaly', whatever its neighbours hold: the
\* output has a row for that record, with its prices, that is 'Anomaly', and
\* when the record is the only one of its slot that row is the slot's row.
C10_SellAboveBuyIsAnomaly ==
    pc = "returned" =>
        \A k \in DOMAIN raw :
            LET s == RawCell(k, "systemSellPrice")
                b == RawCell(k, "systemBuyPrice")
                t == raw[k].timestamp
            IN  (notna(s) /\ notna(b) /\ s.v > b.v)
                => /\ \E i \in RowsAt(t) :
                        /\ prices_df[i].system_sell_price = s
                        /\ prices_df[i].system_buy_price = b
                        /\ prices_df[i].price_quality = "Anomaly"
                   /\ Cardinality(RawAt(t)) = 1
                        => \A i \in RowsAt(t) : prices_df[i].price_quality = "Anomaly"

\* C10 witness: an 'Anomaly' row sits between a filled row and a row that
\* stayed 'Missing'
C10_Witness ==
    /\ pc = "returned"
    /\ \E i \in DOMAIN prices_df :
        /\ i > 1 /\ i < Len(prices_df)
        /\ prices_df[i].price_quality = "Anomaly"
        /\ prices_df[i].system_sell_price.v = 110 * Scale
        /\ prices_df[i].system_buy_price.v = 100 * Scale
        /\ {prices_df[i - 1].price_quality, prices_df[i + 1].price_quality}
               = {"Interpolated", "Missing"}

\* C11: volume_quality of every returned row is 'Missing' or 'Good', 'Missing'
\* exactly when the net imbalance volume is still null after the fill; no
\* row is 'Interpolated', not even one whose volume was filled.
C11_VolumeQualityMissingOrGood ==
    pc = "returned" =>
        \A i \in DOMAIN volumes_df :
            /\ volumes_df[i].volume_quality \in {"Missing", "Good"}
            /\ volumes_df[i].volume_quality = "Missing"
                   <=> isna(volumes_df[i].net_imbalance_volume)

\* C11 witness: a slot without a raw volume was filled and its row is 'Good'
C11_Witness ==
    /\ pc = "returned"
    /\ \E i \in DOMAIN volumes_df :
        /\ MissingAt("netImbalanceVolume", volumes_df[i].timestamp)
        /\ notna(volumes_df[i].net_imbalance_volume)
        /\ volumes_df[i].volume_quality = "Good"

\* C12: when a net imbalance volume is missing in a single slot bounded by
\* present values on both sides, at least one returned volume row has
\* volume_quality 'Interpolated'.  (Stated as the test asserts it; the code
\* never gives a volume row that flag.)
C12_FilledVolumeIsInterpolated ==
    pc = "returned" =>
        ((\E t \in 1..MaxSlot :
            /\ PresentAt("netImbalanceVolume", t - 1)
            /\ MissingAt("netImbalanceVolume", t)
            /\ PresentAt("netImbalanceVolume", t + 1))
         => \E i \in DOMAIN volumes_df : volumes_df[i].volume_quality = "Interpolated")

\* C13: a call on a batch of zero records raises BMRSError and never returns
\* a pair of empty series.
C13_EmptyBatchRaises ==
    /\ (raw = <<>> /\ pc = "ready") => ENABLED clean_and_process_data_raises
    /\ raw = <<>> => pc \in {"ready", "raised"}
    /\ pc = "returned" => (prices_df # <<>> /\ volumes_df # <<>>)

\* C13 witness: the call on the empty batch has raised
C13_Witness == raw = <<>> /\ pc = "raised"

\* a complete row of the price frame and of the volume frame
PriceRowComplete(r) ==
    /\ DOMAIN r = {"timestamp", "system_sell_price", "system_buy_price", "price_spread",
                   "is_interpolated_sell", "is_interpolated_buy", "price_quality"}
    /\ r.price_quality \in {"Missing", "Interpolated", "Anomaly", "Good"}
VolumeRowComplete(r) ==
    /\ DOMAIN r = {"timestamp", "net_imbalance_volume", "abs_imbalance_volume",
                   "volume_quality"}
    /\ r.volume_quality \in {"Missing", "Interpolated", "Good"}

\* C14: every call ends in exactly one of two outcomes: it returns a
\* complete pair of frames, or it raises BMRSError and the caller receives
\* no frame; a batch lacking the timestamp column raises.
C14_ReturnOrRaise ==
    /\ pc = "ready" =>
          IF raw # <<>> /\ HasTimestamp(raw)
          THEN MergedFrames(raw) # {} /\ ~ENABLED clean_and_process_data_raises
          ELSE ENABLED clean_and_process_data_raises
    /\ pc = "returned" =>
          /\ raw # <<>> /\ HasTimestamp(raw)
          /\ Len(prices_df) >= 1 /\ Len(volumes_df) = Len(prices_df)
          /\ \A i \in DOMAIN prices_df : PriceRowComplete(prices_df[i])
          /\ \A i \in DOMAIN volumes_df : VolumeRowComplete(volumes_df[i])
    /\ pc = "raised" => (prices_df = <<>> /\ volumes_df = <<>>)
    /\ (~HasTimestamp(raw) /\ pc # "ready") => pc = "raised"

\* C14 witness: a call on a non-empty batch without the timestamp column has
\* raised
C14_Witness == raw # <<>> /\ ~HasTimestamp(raw) /\ pc = "raised"

\* the pre-fill flags of raw record k and of output row i
RawFlags(k) ==
    <<isna(RawCell(k, "systemSellPrice")), isna(RawCell(k, "systemBuyPrice"))>>
RowFlags(i) == <<prices_df[i].is_interpolated_sell, prices_df[i].is_interpolated_buy>>

\* C20: is_interpolated_sell / is_interpolated_buy of an output row is true
\* exactly when the raw batch supplies no usable price for the row before
\* any fill: a slot without a raw record has one row with both flags true,
\* and the rows of any other slot carry the flags of its raw records (null
\* or unparsable price), whether or not the fill succeeds afterwards.
C20_FlagsAreThePreFillMask ==
    pc = "returned" =>
        \A t \in SeqMin(raw)..SeqMax(raw) :
            IF RawAt(t) = {}
            THEN /\ Cardinality(RowsAt(t)) = 1
                 /\ \A i \in RowsAt(t) : RowFlags(i) = <<TRUE, TRUE>>
            ELSE \A fl \in BOOLEAN \X BOOLEAN :
                    Cardinality({i \in RowsAt(t) : RowFlags(i) = fl})
                        = Cardinality({k \in RawAt(t) : RawFlags(k) = fl})

\* C20 witness: inside a gap too long to fill, a row without a raw record
\* has its flags true and is 'Missing', next to a flagged row that was
\* filled, and an unparsable sell price set the flag of a recorded row
C20_Witness ==
    /\ pc = "returned"
    /\ \E i \in DOMAIN prices_df :
        /\ i > 1 /\ i < Len(prices_df)
        /\ RawAt(prices_df[i].timestamp) = {}
        /\ prices_df[i].is_interpolated_sell /\ prices_df[i].price_quality = "Missing"
        /\ prices_df[i - 1].is_interpolated_sell
        /\ prices_df[i - 1].price_quality = "Interpolated"
    /\ \E k \in DOMAIN raw :
        /\ raw[k].systemSellPrice.kind = "str"
        /\ \A i \in RowsAt(raw[k].timestamp) : prices_df[i].is_interpolated_sell

\* a percentage of the summary is count / total * 100
IsPct(p, count, total) == p.num * total = count * 100 * p.den

\* C16: get_data_quality_summary reports for both frames total_periods =
\* row count, every count = number of rows of that quality, and every
\* <key>_pct = count / total * 100; 3 'Missing' rows out of 96 give 3.125
\* (the fraction 25/8).
C16_SummaryCountsAndPercentages ==
    /\ Pct(3, 96) = [num |-> 25, den |-> 8]
    /\ pc = "summarised" =>
        LET p == summary.prices
            v == summary.volumes
        IN  /\ p.total_periods = Len(prices_df)
            /\ \A q \in {"Missing", "Interpolated", "Anomaly"} :
                LET count == Cardinality({i \in DOMAIN prices_df :
                                              prices_df[i].price_quality = q})
                IN  CASE q = "Missing" ->
                            /\ p.missing_periods = count
                            /\ IsPct(p.missing_periods_pct, count, Len(prices_df))
                      [] q = "Interpolated" ->
                            /\ p.interpolated_periods = count
                            /\ IsPct(p.interpolated_periods_pct, count, Len(prices_df))
                      [] q = "Anomaly" ->
                            /\ p.anomalies = count
                            /\ IsPct(p.anomalies_pct, count, Len(prices_df))
            /\ v.total_periods = Len(volumes_df)
            /\ \A q \in {"Missing", "Interpolated"} :
                LET count == Cardinality({i \in DOMAIN volumes_df :
                                              volumes_df[i].volume_quality = q})
                IN  CASE q = "Missing" ->
                            /\ v.missing_periods = count
                            /\ IsPct(v.missing_periods_pct, count, Len(volumes_df))
                      [] q = "Interpolated" ->
                            /\ v.interpolated_periods = count
                            /\ IsPct(v.interpolated_periods_pct, count, Len(volumes_df))

\* C16 witness: a summary with missing, interpolated and anomalous price
\* rows and a percentage that is not a whole number
C16_Witness ==
    /\ pc = "summarised"
    /\ summary.prices.missing_periods > 0
    /\ summary.prices.interpolated_periods > 0
    /\ summary.prices.anomalies > 0
    /\ summary.prices.missing_periods_pct.den > 1
    /\ summary.volumes.missing_periods > 0

\* C17: for the gapless one-day batch of 48 records whose only missing
\* prices are the sell price at index 5 and the buy price at index 6, rows 5
\* and 6 are 'Interpolated', no row is 'Missing', and the summary reports
\* interpolated_periods = 2 and missing_periods = 0 for prices.
C17_FixtureRowsInterpolated ==
    /\ pc \in {"returned", "summarised"} =>
        /\ Len(prices_df) = PeriodsPerDay
        /\ \A i \in DOMAIN prices_df :
            /\ prices_df[i].price_quality # "Missing"
            /\ prices_df[i].price_quality = "Interpolated"
                   <=> i - 1 \in {FixtureMissingSell, FixtureMissingBuy}
    /\ pc = "summarised" =>
        /\ summary.prices.interpolated_periods = 2
        /\ summary.prices.missing_periods = 0

\* C17 witness: the fixture has been processed and summarised
C17_Witness ==
    /\ pc = "summarised"
    /\ Len(raw) = PeriodsPerDay
    /\ raw[FixtureMissingSell + 1].systemSellPrice = Null
    /\ raw[FixtureMissingBuy + 1].systemBuyPrice = Null
    /\ \A i \in DOMAIN raw :
        /\ i - 1 # FixtureMissingSell => raw[i].systemSellPrice.kind = "num"
        /\ i - 1 # FixtureMissingBuy => raw[i].systemBuyPrice.kind = "num"
    /\ prices_df[FixtureMissingSell + 1].price_quality = "Interpolated"
    /\ summary.prices.interpolated_periods = 2

\* C19: analyse_hourly_volumes on a non-empty volume frame that covers every
\* hour of the day returns, without raising, statistics of one row per hour
\* (24 rows); on an empty frame it raises BMRSError.  (The code raises on
\* every frame.)
C19_HourlyAnalysisReturns ==
    analysis_pc # "idle" =>
        IF analysed = <<>>
        THEN analysis_pc = "raised"
        ELSE {hour(analysed[i].timestamp) : i \in DOMAIN analysed} = 0..(HoursPerDay - 1)
                => /\ analysis_pc = "returned"
                   /\ Len(hourly_stats) = HoursPerDay

\* the dates of the range whose fetch succeeded
FetchedDates ==
    {d \in start_date..end_date : get_imbalance_data(responses[d]).ok}

\* C18: get_historic_imbalance_data(start, end) with start <= end fetches
\* each date from start to end once, in ascending order, a failed date
\* being skipped; the result holds the rows of every date that fetched
\* successfully and nothing else; BMRSError is raised when no date produced
\* data.
C18_OneFetchPerDate ==
    (start_date <= end_date /\ fetch_pc \in {"returned", "raised"}) =>
        /\ api_calls = date_range(start_date, end_date)
        /\ fetch_pc = "raised" <=> FetchedDates = {}
        /\ fetch_pc = "returned" =>
            /\ \A d \in FetchedDates :
                 \A i \in DOMAIN get_imbalance_data(responses[d]).df :
                    \E j \in DOMAIN combined_df :
                        combined_df[j] = get_imbalance_data(responses[d]).df[i]
            /\ \A j \in DOMAIN combined_df :
                 /\ combined_df[j].settlementDate \in FetchedDates
                 /\ \A k \in DOMAIN combined_df : j # k => combined_df[j] # combined_df[k]

\* C18 witness: two dates each answered with one record gave two rows and
\* two API calls
C18_Witness ==
    /\ fetch_pc = "returned"
    /\ end_date = start_date + 1
    /\ \A d \in start_date..end_date : Len(get_imbalance_data(responses[d]).df) = 1
    /\ Len(combined_df) = 2
    /\ Len(api_calls) = 2

\* a raw cell that is neither a number nor a parsable string
Unparsable(c) == c.kind = "str" /\ c.text \notin DOMAIN ParseTable

\* the raw batch with every unparsable value replaced by a null
Nullified(df) ==
    [k \in 1..Len(df) |->
        [col \in DOMAIN df[k] |->
            IF col \in NumericCols /\ Unparsable(df[k][col]) THEN Null ELSE df[k][col]]]

\* C21: an unparsable sell price, buy price or volume is treated exactly
\* like a null at that slot: it coerces to the same missing value, the
\* frames returned are frames the batch with nulls in its place returns,
\* and it never makes the call raise.
C21_UnparsableIsNull ==
    /\ \A k \in DOMAIN raw : \A col \in NumericCols :
          Unparsable(raw[k][col]) => to_numeric(raw[k][col]) = to_numeric(Null)
    /\ pc \in {"returned", "summarised"} =>
          \E srt \in sort_values(Coerce(Nullified(raw))) :
              LET merged == merge(expected_periods(srt), srt)
                  df == Filled(merged)
              IN  /\ prices_df = PricesOf(merged, df)
                  /\ volumes_df = VolumesOf(df)
    /\ pc = "raised" => (raw = <<>> \/ ~HasTimestamp(raw))

\* C21 witness: a batch with an unparsable sell price and an unparsable
\* volume has been processed; the sell price was flagged and filled
C21_Witness ==
    /\ pc = "returned"
    /\ \E k \in DOMAIN raw :
        /\ Unparsable(raw[k].systemSellPrice)
        /\ \A i \in RowsAt(raw[k].timestamp) :
            /\ prices_df[i].is_interpolated_sell
            /\ notna(prices_df[i].system_sell_price)
    /\ \E k \in DOMAIN raw : Unparsable(raw[k].netImbalanceVolume)

\* the values of a price column in the raw records of the two slots next to t
NeighbourValues(col, t) ==
    {RawCell(k, col).v : k \in RawAt(t - 1) \cup RawAt(t + 1)}

\* a slot whose price is missing while both neighbouring slots have it
SingleGap(col, t) ==
    /\ MissingAt(col, t)
    /\ PresentAt(col, t - 1)
    /\ PresentAt(col, t + 1)

\* C22 as claimed: the value filled into a single missing slot lies strictly
\* between the values of the two neighbouring slots.  (Refuted when the two
\* neighbours are equal.)
C22_FilledStrictlyBetween ==
    pc = "returned" =>
        \A col \in PriceCols : \A t \in 1..MaxSlot :
            SingleGap(col, t) =>
                \A i \in RowsAt(t) :
                    /\ notna(OutCell(col, i))
                    /\ Min(NeighbourValues(col, t)) < OutCell(col, i).v
                    /\ OutCell(col, i).v < Max(NeighbourValues(col, t))

\* C22 amended: the value filled into a single missing slot is the linear
\* interpolation of its neighbours: it lies between the neighbouring values,
\* and when no timestamp repeats it is their mean, hence strictly between
\* them exactly when they differ.
C22_FilledIsInterpolation ==
    pc = "returned" =>
        \A col \in PriceCols : \A t \in 1..MaxSlot :
            SingleGap(col, t) =>
                \A i \in RowsAt(t) :
                    /\ notna(OutCell(col, i))
                    /\ Min(NeighbourValues(col, t)) <= OutCell(col, i).v
                    /\ OutCell(col, i).v <= Max(NeighbourValues(col, t))
                    /\ DistinctTimestamps =>
                          \A j \in RawAt(t - 1) : \A k \in RawAt(t + 1) :
                              2 * OutCell(col, i).v = RawCell(j, col).v + RawCell(k, col).v

\* C22 witness: a slot without a sell price between the prices 100 and 110
\* was filled with 105
C22_Witness ==
    /\ pc = "returned"
    /\ DistinctTimestamps
    /\ \E t \in 1..MaxSlot :
        /\ SingleGap("systemSellPrice", t)
        /\ NeighbourValues("systemSellPrice", t) = {100 * Scale, 110 * Scale}
        /\ \A i \in RowsAt(t) : OutCell("systemSellPrice", i) = Float(105 * Scale)

\* C26: for a batch with distinct timestamps, every value the raw batch
\* supplies is carried unchanged to the output row of its timestamp, and
\* price_spread and abs_imbalance_volume of every row are buy - sell and
\* |volume| of the row's output values.
C26_PresentValuesUnaltered ==
    (pc = "returned" /\ DistinctTimestamps) =>
        /\ \A k \in DOMAIN raw : \A col \in NumericCols :
              notna(RawCell(k, col)) =>
                  /\ RowsAt(raw[k].timestamp) # {}
                  /\ \A i \in RowsAt(raw[k].timestamp) : OutCell(col, i) = RawCell(k, col)
        /\ \A i \in DOMAIN prices_df :
              /\ prices_df[i].price_spread
                    = Sub(prices_df[i].system_buy_price, prices_df[i].system_sell_price)
              /\ volumes_df[i].abs_imbalance_volume = Abs(volumes_df[i].net_imbalance_volume)

\* C26 witness: a record that has all three values lies between two filled
\* slots and kept its values; its volume is negative
C26_Witness ==
    /\ pc = "returned"
    /\ DistinctTimestamps
    /\ \E k \in DOMAIN raw : \E i \in DOMAIN prices_df :
        /\ i > 1 /\ i < Len(prices_df)
        /\ prices_df[i].timestamp = raw[k].timestamp
        /\ \A col \in NumericCols : raw[k][col].kind = "num" /\ OutCell(col, i) = RawCell(k, col)
        /\ LtZero(volumes_df[i].net_imbalance_volume)
        /\ RawAt(prices_df[i - 1].timestamp) = {}
        /\ RawAt(prices_df[i + 1].timestamp) = {}
        /\ notna(prices_df[i - 1].system_sell_price)
        /\ notna(prices_df[i + 1].system_sell_price)

\* -------------------------------------------------- claims on BMRSAnalysis
\* the number of calendar dates of the range of the call of c
RunDays(c) == run_args[c].end_date - run_args[c].start_date + 1

\* the frames process_data yields for the records the call of c fetched
RunFrames(c) ==
    process_data(convert_to_dataframe(extend(
        [i \in 1..Len(run_calls[c]) |->
            api_service_get_imbalance_data(
                Response(run_args[c].answers, run_calls[c][i],
                         run_args[c].start_date, run_args[c].end_date)).data])))

\* get_dataframes has returned or raised
GdEnded == gd_pc \in {"returned", "raised"}

\* get_dataframes was called after the call of c returned, and has ended,
\* with no step of a run since that return
CalledAfterReturnOf(c) ==
    run_last = c /\ run_pc[c] = "returned" /\ GdEnded /\ gd_alone

\* get_dataframes returned the frames of the records the call of c fetched,
\* one row per record, the dates of its range in order
ReturnsFramesOf(c) ==
    /\ gd_pc = "returned"
    /\ run_calls[c] = date_range(run_args[c].start_date, run_args[c].end_date)
    /\ gd_result = <<RunFrames(c).prices, RunFrames(c).volumes>>
    /\ \A k \in 1..2 : \A i \in 1..Len(gd_result[k]) :
           date(gd_result[k][i].timestamp.slot) = run_calls[c][(i + 1) \div 2]
    /\ Len(gd_result[1]) = 2 * Len(run_calls[c])
    /\ Len(gd_result[2]) = 2 * Len(run_calls[c])

\* C23: run_analysis never processes more than 31 days in one run: a call
\* makes at most 31 daily fetches, and a range of more than 31 dates, or an
\* end date before the start date, is rejected with BMRSError before any
\* fetch is made.
C23_AtMost31DailyFetches ==
    \A c \in Callers :
        run_pc[c] # "idle" =>
            /\ Len(run_calls[c]) <= Window
            /\ (RunDays(c) > Window \/ run_args[c].end_date < run_args[c].start_date) =>
                   (run_pc[c] = "raised" /\ run_calls[c] = <<>>)

C25_FailedRunLeavesStoredFrames ==
    \A c \in Callers : run_pc[c] = "raised" => run_stored # c

\* ------------------------------ claims on calculate_daily_imbalance_metrics
\* the calendar dates of the timestamps present in both given frames
CommonDates ==
    {date(metrics_prices[i].timestamp) :
        i \in {k \in 1..Len(metrics_prices) :
                  \E j \in 1..Len(metrics_volumes) :
                      metrics_volumes[j].timestamp = metrics_prices[k].timestamp}}

\* the value, in sixteenths of a pound, of the period that price row i and
\* volume row j describe, if they are of one timestamp on date d: volume *
\* sell price if the volume is >= 0, volume * buy price if it is negative,
\* nothing if the volume or that price is null
PeriodCost(i, j, d) ==
    LET p == metrics_prices[i]
        v == metrics_volumes[j]
    IN  IF p.timestamp # v.timestamp \/ date(p.timestamp) # d THEN 0
        ELSE IF v.net_imbalance_volume.nan THEN 0
        ELSE IF v.net_imbalance_volume.v >= 0
        THEN (IF p.system_sell_price.nan THEN 0
              ELSE v.net_imbalance_volume.v * p.system_sell_price.v)
        ELSE (IF p.system_buy_price.nan THEN 0
              ELSE v.net_imbalance_volume.v * p.system_buy_price.v)

\* the sum of the period costs of date d, in sixteenths of a pound
DateCost(d) ==
    SumCells([i \in 1..Len(metrics_prices) |->
        Float(SumCells([j \in 1..Len(metrics_volumes) |-> Float(PeriodCost(i, j, d))]))])

\* both given frames have rows and the timestamp column
MetricsInputOK ==
    /\ metrics_prices # <<>>
    /\ metrics_volumes # <<>>
    /\ HasTimestamp(metrics_prices)
    /\ HasTimestamp(metrics_volumes)

\* the call raises exactly on frames lacking the timestamp column, and
\* returns one row per date of the common timestamps
OneRowPerDate ==
    /\ (metrics_pc \in {"returned", "raised"}) =>
           (metrics_pc = "raised" <=> ~MetricsInputOK)
    /\ metrics_pc = "returned" =>
           /\ Len(daily_metrics) = Cardinality(CommonDates)
           /\ {daily_metrics[n].date : n \in 1..Len(daily_metrics)} = CommonDates

\* C27 as stated: calculate_daily_imbalance_metrics raises BMRSError on
\* frames lacking the timestamp column; otherwise it returns exactly one row
\* per calendar date of the timestamps present in both frames, and the
\* row's imbalance_cost is the sum of that date's period costs, volume *
\* sell price for a volume >= 0 and volume * buy price for a negative one.
C27_DailyCostIsSum ==
    /\ OneRowPerDate
    /\ metrics_pc = "returned" =>
           \A n \in 1..Len(daily_metrics) :
               16 * daily_metrics[n].imbalance_cost.v = 100 * DateCost(daily_metrics[n].date)

\* C27 amended: as above, but the row's imbalance_cost is the sum of that
\* date's period costs (periods with a null volume or price left out)
\* rounded to two decimals: a multiple of 0.01 at most 0.005 from the sum.
C27_DailyCostIsRoundedSum ==
    /\ OneRowPerDate
    /\ metrics_pc = "returned" =>
           \A n \in 1..Len(daily_metrics) :
               LET off == 16 * daily_metrics[n].imbalance_cost.v
                          - 100 * DateCost(daily_metrics[n].date)
               IN  /\ ~daily_metrics[n].imbalance_cost.nan
                   /\ off <= 8
                   /\ -off <= 8

\* C27 witness: the 96 half-hourly rows of the fixture give 2 rows, the
\* first with a negative cost (short periods valued at the buy price)
C27_Witness ==
    /\ metrics_pc = "returned"
    /\ Len(metrics_prices) = 2 * PeriodsPerDay
    /\ Len(daily_metrics) = 2
    /\ daily_metrics[1].imbalance_cost.v < 0
    /\ 16 * daily_metrics[1].imbalance_cost.v = 100 * DateCost(0)

====
